---- MODULE Spec2Model ----
(***************************************************************************)
(* A model of the Linear MCP server: the tool table and the handler        *)
(* factory (tool name -> handler binding), the comment and project tool    *)
(* handlers, and the GraphQL execution client with its retry policy and    *)
(* its fixed-window rate limiter.                                          *)
(*                                                                         *)
(* JavaScript values are modelled as follows.  An optional value (an       *)
(* environment variable, an optional field) is a sequence of length 0      *)
(* (undefined) or 1 (the value).  An object literal is a TLA+ function     *)
(* from its own keys; property lookup also sees Object.prototype.          *)
(***************************************************************************)
EXTENDS Integers, Sequences, FiniteSets, TLC

VARIABLES
    TOOL_PREFIX,    \* process.env.TOOL_PREFIX: <<>> when unset, <<s>> when set to s
    toolSchemas,    \* the exported tool table, built once when the module is loaded
    lookup,         \* outcome of the last HandlerFactory.getHandlerForTool call
    clientAvailable,\* whether the handler holds an authenticated GraphQL client
    call,           \* the tool-handler call in progress (one dispatch)
    httpConfig,     \* ConfigService.getHttpConfig(): maxRetries, rateLimit
    rateLimitWindow,    \* GraphQLClient.rateLimitWindow, as [set, age]
    rateLimitRequests,  \* GraphQLClient.rateLimitRequests
    gatePasses,     \* execute calls let through by checkRateLimit since the window was last reset
    launched,       \* how many callers use this client, each one execute call at a time
    faults,         \* the values a request of this run may throw
    calls,          \* the execute calls: position, pending timer, attempts
    batch,          \* the executeBatch call: position, number of operations, outcome
    builder,        \* the QueryBuilder instance: its private fields
    built,          \* what buildOperation returned or threw; <<>> before it is called
    ignored,        \* name of the last setVariableValue call that found no variable; <<>>: none
    selected,       \* the paths of all leaf fields passed to select so far
    catalog,        \* the last operation-catalog call: factory, arguments, operation returned
    linear,         \* the LinearGraphQLClient call in progress
    sent,           \* the requests that call has sent, in order
    answered,       \* the responses that have arrived, in order, each with its request's index
    now,            \* Date.now()
    authConfig,     \* the AuthConfig object AuthService, PATService and OAuthService share
    patAccessToken, \* PATService.accessToken
    tokenData,      \* tokenData of the TokenManager of AuthService
    oauthTokenData, \* tokenData of the TokenManager of OAuthService
    authCall,       \* the last call on AuthService: ended, or waiting for its POST
    posts,          \* the POST /oauth/token requests sent so far
    bulk,           \* the IssueService bulk call: position, per-item calls, outcome
    executed,       \* the operations IssueService has passed to client.execute, in order
    store,          \* the issues the Linear workspace holds
    env,            \* process.env, the variables ConfigService reads
    service,        \* the ConfigService instance the last call returned; <<>>: none
    configCall,     \* the last ConfigService construction: returned or threw
    oauthCalls,     \* the OAuthService.getAccessToken calls, each with its position
    exchanged       \* the refresh tokens POST /oauth/token has exchanged so far

toolVars == <<TOOL_PREFIX, toolSchemas, lookup>>
handlerVars == <<clientAvailable, call>>
clientVars ==
    <<httpConfig, rateLimitWindow, rateLimitRequests, gatePasses, launched, faults, calls>>
batchVars == <<batch>>
builderVars == <<builder, built, ignored, selected>>
catalogVars == <<catalog>>
\* the variables of the tool table, the handlers, the execution client and
\* the query builder
coreVars == <<toolVars, handlerVars, clientVars, batchVars, builderVars>>
\* the variables of the catalog and the services
linearVars == <<linear, sent, answered>>
authVars == <<now, authConfig, patAccessToken, tokenData, oauthTokenData, authCall, posts>>
bulkVars == <<bulk, executed, store>>
configVars == <<env, service, configCall>>
oauthVars == <<oauthCalls, exchanged>>
\* the variables of IssueService, ConfigService and concurrent OAuthService calls
lastVars == <<bulkVars, configVars, oauthVars>>
laterVars == <<catalogVars, linearVars, authVars, lastVars>>
notCatalog == <<coreVars, linearVars, authVars, lastVars>>
notLinear == <<coreVars, catalogVars, authVars, lastVars>>
notAuth == <<coreVars, catalogVars, linearVars, lastVars>>
notBulk == <<coreVars, catalogVars, linearVars, authVars, configVars, oauthVars>>
notConfig == <<coreVars, catalogVars, linearVars, authVars, bulkVars, oauthVars>>
notOAuth == <<coreVars, catalogVars, linearVars, bulkVars, configVars>>
vars == <<coreVars, laterVars>>

(***************************************************************************)
(* JavaScript helpers                                                      *)
(***************************************************************************)

\* the empty object literal {}
EmptyObject == [k \in {} |-> {}]

\* JavaScript truthiness of an optional string: undefined and "" are falsy
Truthy(opt) == opt # <<>> /\ opt[1] # ""

\* An object literal with computed keys: later entries overwrite earlier
\* entries that have the same key.
RECURSIVE ObjectLiteral(_)
ObjectLiteral(entries) ==
    IF entries = <<>> THEN EmptyObject
    ELSE LET n    == Len(entries)
             rest == ObjectLiteral(SubSeq(entries, 1, n - 1))
             e    == entries[n]
         IN  [k \in (DOMAIN rest) \cup {e.key} |->
                 IF k = e.key THEN e.value ELSE rest[k]]

\* Property names every object literal inherits from Object.prototype; each
\* of them reads as a truthy value (a function or the prototype object).
ObjectPrototypeKeys ==
    {"constructor", "toString", "valueOf", "hasOwnProperty", "__proto__"}

\* obj[key] for an object literal: an own property, else an inherited one,
\* else undefined.
GetProperty(obj, key) ==
    IF key \in DOMAIN obj THEN [kind |-> "own", value |-> obj[key]]
    ELSE IF key \in ObjectPrototypeKeys THEN [kind |-> "inherited", value |-> key]
    ELSE [kind |-> "undefined"]

(***************************************************************************)
(* core/types/tool.types.ts: the tool table                                *)
(***************************************************************************)

getToolName_NoPrefix(prefix, baseName) == baseName

getToolName(prefix, baseName) ==
    IF Truthy(prefix) THEN prefix[1] \o "_" \o baseName ELSE baseName

getToolDescription_NoPrefix(prefix, description) == description

getToolDescription(prefix, description) ==
    IF Truthy(prefix)
    THEN "For '" \o prefix[1] \o "' Linear workspace: " \o description
    ELSE description

\* The entries of the toolSchemas literal in source order: base name, base
\* description and the top-level "required" list of the input schema.
SchemaEntries == <<
    [base |-> "linear_auth_callback", description |-> "Handle OAuth callback",
     required |-> <<"code">>],
    [base |-> "linear_create_issue", description |-> "Create a new issue in Linear",
     required |-> <<"title", "description", "teamId">>],
    [base |-> "linear_create_project_with_issues",
     description |-> "Create a new project with associated issues. Note: Project requires teamIds (array) not teamId (single value).",
     required |-> <<"project", "issues">>],
    [base |-> "linear_bulk_update_issues", description |-> "Update multiple issues at once",
     required |-> <<"issueIds", "update">>],
    [base |-> "linear_search_issues",
     description |-> "Search for issues with filtering and pagination",
     required |-> <<>>],
    [base |-> "linear_search_issues_by_identifier",
     description |-> "Search for issues by their identifiers (e.g., [\"ENG-78\", \"ENG-79\"])",
     required |-> <<"identifiers">>],
    [base |-> "linear_get_teams",
     description |-> "Get all teams with their states and labels",
     required |-> <<>>],
    [base |-> "linear_get_user", description |-> "Get current user information",
     required |-> <<>>],
    [base |-> "linear_delete_issue", description |-> "Delete an issue",
     required |-> <<"id">>],
    [base |-> "linear_delete_issues", description |-> "Delete multiple issues",
     required |-> <<"ids">>],
    [base |-> "linear_get_project", description |-> "Get project information",
     required |-> <<"id">>],
    [base |-> "linear_list_projects",
     description |-> "List all projects or filter them by criteria",
     required |-> <<>>],
    [base |-> "linear_create_issues", description |-> "Create multiple issues at once",
     required |-> <<"issues">>],
    [base |-> "linear_create_comment", description |-> "Creates a new comment on an issue",
     required |-> <<"body", "issueId">>],
    [base |-> "linear_update_comment", description |-> "Updates an existing comment",
     required |-> <<"id", "input">>],
    [base |-> "linear_delete_comment", description |-> "Deletes a comment",
     required |-> <<"id">>],
    [base |-> "linear_resolve_comment", description |-> "Resolves a comment",
     required |-> <<"id">>],
    [base |-> "linear_unresolve_comment", description |-> "Unresolves a comment",
     required |-> <<"id">>],
    [base |-> "linear_create_customer_need_from_attachment",
     description |-> "Creates a new customer need from an attachment",
     required |-> <<"attachmentId">>],
    [base |-> "linear_get_project_milestones",
     description |-> "Get milestones for a project with filtering and pagination",
     required |-> <<"projectId">>],
    [base |-> "linear_create_project_milestone",
     description |-> "Create a new project milestone",
     required |-> <<"projectId", "name">>],
    [base |-> "linear_update_project_milestone",
     description |-> "Update a project milestone",
     required |-> <<"id">>],
    [base |-> "linear_delete_project_milestone",
     description |-> "Delete a project milestone",
     required |-> <<"id">>] >>

\* export const toolSchemas = { [getToolName(b)]: { name: getToolName(b),
\*   description: getToolDescription(d), inputSchema: ... }, ... }
BuildToolSchemas(prefix) ==
    ObjectLiteral([i \in 1..Len(SchemaEntries) |->
        [key   |-> getToolName(prefix, SchemaEntries[i].base),
         value |-> [name        |-> getToolName(prefix, SchemaEntries[i].base),
                    description |-> getToolDescription(prefix, SchemaEntries[i].description),
                    required    |-> SchemaEntries[i].required]]])

(***************************************************************************)
(* core/handlers/handler.factory.ts: tool name -> {handler, method}        *)
(***************************************************************************)

HandlerFactory_getToolName_NoPrefix(prefix, baseName) == baseName

HandlerFactory_getToolName(prefix, baseName) ==
    IF Truthy(prefix) THEN prefix[1] \o "_" \o baseName ELSE baseName

\* The entries of the handlerMap literal in source order.
HandlerEntries == <<
    [base |-> "linear_auth", handler |-> "authHandler", method |-> "handleAuth"],
    [base |-> "linear_auth_callback", handler |-> "authHandler", method |-> "handleAuthCallback"],
    [base |-> "linear_create_issue", handler |-> "issueHandler", method |-> "handleCreateIssue"],
    [base |-> "linear_create_issues", handler |-> "issueHandler", method |-> "handleCreateIssues"],
    [base |-> "linear_bulk_update_issues", handler |-> "issueHandler", method |-> "handleBulkUpdateIssues"],
    [base |-> "linear_search_issues", handler |-> "issueHandler", method |-> "handleSearchIssues"],
    [base |-> "linear_search_issues_by_identifier", handler |-> "issueHandler",
     method |-> "handleSearchIssuesByIdentifier"],
    [base |-> "linear_get_issue", handler |-> "issueHandler", method |-> "handleGetIssue"],
    [base |-> "linear_delete_issue", handler |-> "issueHandler", method |-> "handleDeleteIssue"],
    [base |-> "linear_delete_issues", handler |-> "issueHandler", method |-> "handleDeleteIssues"],
    [base |-> "linear_create_project_with_issues", handler |-> "projectHandler",
     method |-> "handleCreateProjectWithIssues"],
    [base |-> "linear_get_project", handler |-> "projectHandler", method |-> "handleGetProject"],
    [base |-> "linear_list_projects", handler |-> "projectHandler", method |-> "handleListProjects"],
    [base |-> "linear_get_project_milestones", handler |-> "projectHandler",
     method |-> "handleGetProjectMilestones"],
    [base |-> "linear_create_project_milestone", handler |-> "projectHandler",
     method |-> "handleCreateProjectMilestone"],
    [base |-> "linear_update_project_milestone", handler |-> "projectHandler",
     method |-> "handleUpdateProjectMilestone"],
    [base |-> "linear_delete_project_milestone", handler |-> "projectHandler",
     method |-> "handleDeleteProjectMilestone"],
    [base |-> "linear_get_teams", handler |-> "teamHandler", method |-> "handleGetTeams"],
    [base |-> "linear_get_user", handler |-> "userHandler", method |-> "handleGetUser"],
    [base |-> "linear_create_comment", handler |-> "commentHandler", method |-> "handleCommentCreate"],
    [base |-> "linear_update_comment", handler |-> "commentHandler", method |-> "handleCommentUpdate"],
    [base |-> "linear_delete_comment", handler |-> "commentHandler", method |-> "handleCommentDelete"],
    [base |-> "linear_resolve_comment", handler |-> "commentHandler", method |-> "handleCommentResolve"],
    [base |-> "linear_unresolve_comment", handler |-> "commentHandler",
     method |-> "handleCommentUnresolve"],
    [base |-> "linear_create_customer_need_from_attachment", handler |-> "commentHandler",
     method |-> "handleCustomerNeedCreateFromAttachment"] >>

\* const handlerMap = { [getToolName(b)]: { handler, method, description }, ... }
handlerMap(prefix) ==
    ObjectLiteral([i \in 1..Len(HandlerEntries) |->
        [key   |-> HandlerFactory_getToolName(prefix, HandlerEntries[i].base),
         value |-> [handler |-> HandlerEntries[i].handler,
                    method  |-> HandlerEntries[i].method]]])

\* const handlerInfo = handlerMap[toolName];
\* if (!handlerInfo) throw new Error(`No handler found for tool: ${toolName}`);
\* return handlerInfo;
getHandlerForTool(prefix, toolName) ==
    LET handlerInfo == GetProperty(handlerMap(prefix), toolName)
    IN  IF handlerInfo.kind = "undefined"
        THEN [outcome |-> "threw", toolName |-> toolName,
              message |-> "No handler found for tool: " \o toolName]
        ELSE [outcome |-> "returned", toolName |-> toolName, handlerInfo |-> handlerInfo]

(***************************************************************************)
(* The tool table and the handler factory as a state machine               *)
(***************************************************************************)

\* Values of the TOOL_PREFIX environment variable: unset, empty, or a name.
PrefixValues == {<<>>, <<"">>, <<"company1">>, <<"company2">>}

BaseToolNames ==
    {SchemaEntries[i].base : i \in 1..Len(SchemaEntries)} \cup
    {HandlerEntries[i].base : i \in 1..Len(HandlerEntries)}

\* Tool names a caller may ask for: base names, prefixed names, names that
\* are bound nowhere, and names of inherited properties.
ToolNameInputs ==
    BaseToolNames \cup
    {p[1] \o "_" \o b : p \in {q \in PrefixValues : Truthy(q)}, b \in BaseToolNames} \cup
    {"linear_unknown_tool", "company3_linear_create_issue", ""} \cup
    ObjectPrototypeKeys

InitTools ==
    /\ TOOL_PREFIX \in PrefixValues
    /\ toolSchemas = BuildToolSchemas(TOOL_PREFIX)
    /\ lookup = [outcome |-> "none"]

\* HandlerFactory.getHandlerForTool(toolName)
GetHandlerForTool(toolName) ==
    /\ lookup' = getHandlerForTool(TOOL_PREFIX, toolName)
    /\ UNCHANGED <<TOOL_PREFIX, toolSchemas, handlerVars, clientVars, batchVars, builderVars, laterVars>>

NextTools == \E toolName \in ToolNameInputs : GetHandlerForTool(toolName)

\* the descriptor names of the tool table
DescriptorNames == {toolSchemas[k].name : k \in DOMAIN toolSchemas}

\* the handlerMap entries whose computed key is the given name
BindingsOf(name) ==
    {i \in 1..Len(HandlerEntries) :
        HandlerFactory_getToolName(TOOL_PREFIX, HandlerEntries[i].base) = name}

\* C3: under every TOOL_PREFIX, every name of the tool table resolves through
\* getHandlerForTool to exactly one {handler, method} binding, and no two
\* descriptors of the table share a name.
C3_EveryDescriptorHasOneBinding ==
    /\ \A name \in DescriptorNames :
          /\ Cardinality(BindingsOf(name)) = 1
          /\ getHandlerForTool(TOOL_PREFIX, name).outcome = "returned"
    /\ lookup.outcome # "none" /\ lookup.toolName \in DescriptorNames =>
          /\ lookup.outcome = "returned"
          /\ lookup.handlerInfo.kind = "own"
          /\ \E i \in BindingsOf(lookup.toolName) :
                lookup.handlerInfo.value =
                    [handler |-> HandlerEntries[i].handler, method |-> HandlerEntries[i].method]
    /\ Cardinality(DOMAIN toolSchemas) = Len(SchemaEntries)
    /\ \A k1, k2 \in DOMAIN toolSchemas :
          toolSchemas[k1].name = toolSchemas[k2].name => k1 = k2

C3_Witness ==
    /\ TOOL_PREFIX = <<"company1">>
    /\ lookup.outcome = "returned"
    /\ lookup.toolName = "company1_linear_delete_comment"
    /\ lookup.toolName \in DescriptorNames

\* C4: getHandlerForTool fails with an error, and returns nothing, for every
\* tool name that is not a key of the handler map under the current prefix.
C4_UnboundNameFails ==
    lookup.outcome # "none" /\ lookup.toolName \notin DOMAIN handlerMap(TOOL_PREFIX) =>
        lookup.outcome = "threw"

\* C5: with TOOL_PREFIX set to a non-empty P every entry of the tool table has
\* key and name P_base and description "For 'P' Linear workspace: " + base
\* description; with it unset or empty name and description are the base
\* values; every entry's key equals its name.
C5_PrefixTransformUniform ==
    /\ \A i \in 1..Len(SchemaEntries) :
          LET e == SchemaEntries[i]
              key == IF TOOL_PREFIX \in {<<>>, <<"">>} THEN e.base
                     ELSE TOOL_PREFIX[1] \o "_" \o e.base
              description ==
                     IF TOOL_PREFIX \in {<<>>, <<"">>} THEN e.description
                     ELSE "For '" \o TOOL_PREFIX[1] \o "' Linear workspace: " \o e.description
          IN  /\ key \in DOMAIN toolSchemas
              /\ toolSchemas[key].name = key
              /\ toolSchemas[key].description = description
    /\ Cardinality(DOMAIN toolSchemas) = Len(SchemaEntries)
    /\ \A k \in DOMAIN toolSchemas : toolSchemas[k].name = k

C5_Witness ==
    /\ TOOL_PREFIX = <<"company2">>
    /\ "company2_linear_get_user" \in DOMAIN toolSchemas
    /\ toolSchemas["company2_linear_get_user"].description =
          "For 'company2' Linear workspace: Get current user information"
    /\ lookup.outcome = "returned"

(***************************************************************************)
(* core/handlers/base.handler.ts (not among the sources; modelled from the *)
(* dispatch contract of the specification, steps 2, 3, 5 and 6)            *)
(***************************************************************************)

NoThrow == [threw |-> FALSE]

Throw(kind, message) == [threw |-> TRUE, kind |-> kind, message |-> message]

\* verifyAuth(): the authenticated client, or fail with Unauthenticated
verifyAuth(available) ==
    IF available THEN NoThrow ELSE Throw("auth", "Unauthenticated")

\* the least element of a non-empty set of numbers
Least(S) == CHOOSE i \in S : \A j \in S : i <= j

\* validateRequiredParams(params, required): presence of every key of the
\* flat list; fails naming the first missing key
validateRequiredParams(params, required) ==
    LET missing == {i \in 1..Len(required) : required[i] \notin DOMAIN params}
    IN  IF missing = {} THEN NoThrow
        ELSE Throw("missing", "Missing required parameter: " \o required[Least(missing)])

\* handleError(error, operation): the error as a tool response
handleError(error, operation) ==
    [content |-> <<[type |-> "text",
                    text |-> "Failed to " \o operation \o ": " \o error.message]>>,
     isError |-> TRUE]

\* createResponse(text) / createJsonResponse(data)
createResponse(text) == [content |-> <<[type |-> "text", text |-> text]>>]

(***************************************************************************)
(* features/comments/handlers/comment.handler.ts and                       *)
(* features/projects/handlers/project.handler.ts                           *)
(***************************************************************************)

\* Per handler method: the keys it passes to validateRequiredParams, the
\* operation name it passes to handleError, and whether its catch block
\* returns the value of handleError ("return this.handleError(...)") or only
\* calls it ("this.handleError(...)").
HandlerMethods == [
    handleCommentCreate |->
        [class |-> "CommentHandler", required |-> <<"body", "issueId">>,
         operation |-> "create comment", returnsHandleError |-> TRUE],
    handleCommentUpdate |->
        [class |-> "CommentHandler", required |-> <<"id", "input">>,
         operation |-> "update comment", returnsHandleError |-> TRUE],
    handleCommentDelete |->
        [class |-> "CommentHandler", required |-> <<"id">>,
         operation |-> "delete comment", returnsHandleError |-> TRUE],
    handleCommentResolve |->
        [class |-> "CommentHandler", required |-> <<"id">>,
         operation |-> "resolve comment", returnsHandleError |-> TRUE],
    handleCommentUnresolve |->
        [class |-> "CommentHandler", required |-> <<"id">>,
         operation |-> "unresolve comment", returnsHandleError |-> TRUE],
    handleCustomerNeedCreateFromAttachment |->
        [class |-> "CommentHandler", required |-> <<"attachmentId">>,
         operation |-> "create customer need from attachment",
         returnsHandleError |-> TRUE],
    handleCreateProjectWithIssues |->
        [class |-> "ProjectHandler", required |-> <<"project", "issues">>,
         operation |-> "create project with issues", returnsHandleError |-> FALSE],
    handleGetProject |->
        [class |-> "ProjectHandler", required |-> <<"id">>,
         operation |-> "get project info", returnsHandleError |-> FALSE],
    handleListProjects |->
        [class |-> "ProjectHandler", required |-> <<>>,
         operation |-> "list projects", returnsHandleError |-> FALSE],
    handleGetProjectMilestones |->
        [class |-> "ProjectHandler", required |-> <<"projectId">>,
         operation |-> "get project milestones", returnsHandleError |-> FALSE],
    handleCreateProjectMilestone |->
        [class |-> "ProjectHandler", required |-> <<"projectId", "name">>,
         operation |-> "create project milestone", returnsHandleError |-> FALSE],
    handleUpdateProjectMilestone |->
        [class |-> "ProjectHandler", required |-> <<"id">>,
         operation |-> "update project milestone", returnsHandleError |-> FALSE],
    handleDeleteProjectMilestone |->
        [class |-> "ProjectHandler", required |-> <<"id">>,
         operation |-> "delete project milestone", returnsHandleError |-> FALSE] ]

MethodNames == DOMAIN HandlerMethods

\* the first statement of a sequence of checks that throws, if any
RECURSIVE FirstThrow(_)
FirstThrow(checks) ==
    IF checks = <<>> THEN NoThrow
    ELSE IF checks[1].threw THEN checks[1]
    ELSE FirstThrow(Tail(checks))

\* handleCommentUpdate: this.validateRequiredParams(args.input, ["body"])
validateCommentInput(method, args) ==
    IF method = "handleCommentUpdate" /\ "input" \in DOMAIN args
    THEN validateRequiredParams(args["input"], <<"body">>)
    ELSE NoThrow

validateProjectInput_NoIssueCheck(method, args) ==
    IF method # "handleCreateProjectWithIssues"
       \/ ~({"project", "issues"} \subseteq DOMAIN args)
    THEN NoThrow
    ELSE LET teamIds == args["project"].teamIds
             issues  == args["issues"]
         IN  IF teamIds = <<>> \/ teamIds[1].type # "array" \/ teamIds[1].items = <<>>
             THEN Throw("validation",
                        "Project requires teamIds as an array with at least one team ID.")
             ELSE IF issues.type # "array"
             THEN Throw("validation",
                        "Issues parameter must be an array of issue objects.")
             ELSE NoThrow

\* handleCreateProjectWithIssues: the checks on project.teamIds and issues
\* that precede the client call
validateProjectInput(method, args) ==
    IF method # "handleCreateProjectWithIssues"
       \/ ~({"project", "issues"} \subseteq DOMAIN args)
    THEN NoThrow
    ELSE LET teamIds == args["project"].teamIds
             issues  == args["issues"]
             noTeam  == IF issues.type = "array"
                        THEN {i \in 1..Len(issues.items) :
                                 "teamId" \notin DOMAIN issues.items[i]}
                        ELSE {}
         IN  IF teamIds = <<>> \/ teamIds[1].type # "array" \/ teamIds[1].items = <<>>
             THEN Throw("validation",
                        "Project requires teamIds as an array with at least one team ID.")
             ELSE IF issues.type # "array"
             THEN Throw("validation",
                        "Issues parameter must be an array of issue objects.")
             ELSE IF noTeam # {}
             THEN Throw("validation",
                        "Issue at index " \o ToString(Least(noTeam) - 1)
                            \o " is missing required teamId.")
             ELSE NoThrow

\* The statements of a handler's try block up to its client call, in order:
\* verifyAuth, validateRequiredParams, the handler's own checks.
BeforeClientCall(method, args, available) ==
    FirstThrow(<<verifyAuth(available),
                 validateRequiredParams(args, HandlerMethods[method].required),
                 validateCommentInput(method, args),
                 validateProjectInput(method, args)>>)

\* The value an async handler settles with when its catch block runs: the
\* catch block calls handleError; only "return this.handleError(...)" hands
\* the response to the caller, otherwise the function ends without a value.
CatchBlock(method, error) ==
    IF HandlerMethods[method].returnsHandleError
    THEN <<handleError(error, HandlerMethods[method].operation)>>
    ELSE <<>>

(***************************************************************************)
(* graphql/client.ts: the client methods the handlers call                 *)
(***************************************************************************)

\* The client method each handler calls inside its try block.
ClientCallOf == [
    handleCommentCreate |-> "execute",
    handleCommentUpdate |-> "execute",
    handleCommentDelete |-> "execute",
    handleCommentResolve |-> "execute",
    handleCommentUnresolve |-> "execute",
    handleCustomerNeedCreateFromAttachment |-> "execute",
    handleCreateProjectWithIssues |-> "createProjectWithIssues",
    handleGetProject |-> "getProject",
    handleListProjects |-> "searchProjects",
    handleGetProjectMilestones |-> "getProjectMilestones",
    handleCreateProjectMilestone |-> "createProjectMilestone",
    handleUpdateProjectMilestone |-> "updateProjectMilestone",
    handleDeleteProjectMilestone |-> "deleteProjectMilestone" ]

\* The methods LinearGraphQLClient defines.  Calling a method it does not
\* define throws a TypeError inside the handler's try block, before any
\* request is sent.
LinearGraphQLClientMethods ==
    {"execute", "createIssue", "createIssues", "createProject", "createBatchIssues",
     "createProjectWithIssues", "updateIssue", "updateIssues", "createIssueLabels",
     "searchIssues", "getTeams", "getCurrentUser", "getProject", "searchProjects",
     "deleteIssue", "deleteIssues"}

\* the first request a client method sends
FirstRequest(clientMethod) ==
    IF clientMethod = "createProjectWithIssues" THEN "createProject" ELSE clientMethod

\* LinearGraphQLClient.execute: a rejected rawRequest is rethrown as
\* Error(`GraphQL operation failed: ${error.message}`)
LinearGraphQLClient_execute(response) ==
    IF response.kind = "rejected"
    THEN Throw("network", "GraphQL operation failed: " \o response.message)
    ELSE NoThrow

\* What the pending client method does with the response to its request:
\* "next" (send a further request), "return" or a throw.
\* createProjectWithIssues sends createProject, then createBatchIssues, and
\* throws when either reports success = false.
ClientMethodStep(clientMethod, request, response) ==
    LET ex == LinearGraphQLClient_execute(response)
    IN  IF ex.threw THEN ex
        ELSE IF clientMethod # "createProjectWithIssues" THEN [threw |-> FALSE, then |-> "return"]
        ELSE IF request = "createProject"
        THEN IF response.kind = "unsuccessful"
             THEN Throw("client", "Failed to create project")
             ELSE [threw |-> FALSE, then |-> "next", request |-> "createBatchIssues"]
        ELSE IF response.kind = "unsuccessful"
             THEN Throw("client", "Failed to create issues")
             ELSE [threw |-> FALSE, then |-> "return"]

(***************************************************************************)
(* One handler call as a state machine                                     *)
(***************************************************************************)

MaxIssues == 2

\* seq \in Seq(S) of length at most n
SeqUpTo(S, n) == UNION {[1..k -> S] : k \in 0..n}

Issues == {[title |-> "Issue Title"], [title |-> "Issue Title", teamId |-> "team-id-1"]}

\* values of args.project.teamIds: undefined, a single string, arrays
TeamIdsValues ==
    {<<>>, <<[type |-> "string", value |-> "team-id-1"]>>,
     <<[type |-> "array", items |-> <<>>]>>,
     <<[type |-> "array", items |-> <<"team-id-1">>]>>,
     <<[type |-> "array", items |-> <<"team-id-1", "team-id-2">>]>>}

ProjectValues == {[name |-> "Q1 Planning", teamIds |-> t] : t \in TeamIdsValues}

IssuesValues ==
    {[type |-> "object"]} \cup {[type |-> "array", items |-> s] : s \in SeqUpTo(Issues, MaxIssues)}

\* values of args.input of handleCommentUpdate
CommentInputValues == {EmptyObject, [body |-> "text"]}

\* The argument objects a caller may pass to a handler method: any subset of
\* the keys the method reads.
ArgsFor(method) ==
    IF method = "handleCreateProjectWithIssues"
    THEN {[k \in S |-> IF k = "project" THEN p ELSE i] :
             S \in SUBSET {"project", "issues"}, p \in ProjectValues, i \in IssuesValues}
    ELSE IF method = "handleCommentUpdate"
    THEN {[k \in S |-> IF k = "input" THEN i ELSE "comment-id"] :
             S \in SUBSET {"id", "input"}, i \in CommentInputValues}
    ELSE IF method = "handleListProjects"
    THEN {[k \in S |-> "value"] : S \in SUBSET {"filter"}}
    ELSE {[k \in S |-> "value"] :
             S \in SUBSET {HandlerMethods[method].required[j] :
                              j \in 1..Len(HandlerMethods[method].required)}}

\* what the network may answer to one request
Responses ==
    {[kind |-> "ok"], [kind |-> "unsuccessful"],
     [kind |-> "rejected", message |-> "Network error"],
     [kind |-> "rejected", message |-> "Entity not found"]}

IdleCall == [pc |-> "idle"]

InitHandlers ==
    /\ clientAvailable \in BOOLEAN
    /\ call = IdleCall

\* the call settles by running the handler's catch block on a thrown error
Caught(method, args, netCalls, error) ==
    [pc |-> "settled", method |-> method, args |-> args, netCalls |-> netCalls,
     raised |-> <<error>>, outcome |-> "resolved", result |-> CatchBlock(method, error)]

\* A handler method is called: it runs up to its first await.  Either a
\* check throws and the catch block settles the call, or the client method
\* is called and its first request is sent.
Invoke(method, args) ==
    /\ call.pc = "idle"
    /\ LET pre == BeforeClientCall(method, args, clientAvailable)
           clientMethod == ClientCallOf[method]
       IN  IF pre.threw
           THEN call' = Caught(method, args, 0, pre)
           ELSE IF clientMethod \notin LinearGraphQLClientMethods
           THEN call' = Caught(method, args, 0,
                               Throw("type", "client." \o clientMethod \o " is not a function"))
           ELSE call' = [pc |-> "awaiting", method |-> method, args |-> args, netCalls |-> 1,
                         request |-> FirstRequest(clientMethod)]
    /\ UNCHANGED <<clientAvailable, toolVars, clientVars, batchVars, builderVars, laterVars>>

\* The response to the pending request arrives: the client method sends its
\* next request, returns (the handler resolves with a response), or throws
\* (the handler's catch block runs).
ResponseArrives(response) ==
    /\ call.pc = "awaiting"
    /\ LET step == ClientMethodStep(ClientCallOf[call.method], call.request, response)
       IN  IF step.threw
           THEN call' = Caught(call.method, call.args, call.netCalls, step)
           ELSE IF step.then = "next"
           THEN call' = [call EXCEPT !.netCalls = @ + 1, !.request = step.request]
           ELSE call' = [pc |-> "settled", method |-> call.method, args |-> call.args,
                         netCalls |-> call.netCalls, raised |-> <<>>, outcome |-> "resolved",
                         result |-> <<createResponse("result of " \o HandlerMethods[call.method].operation)>>]
    /\ UNCHANGED <<clientAvailable, toolVars, clientVars, batchVars, builderVars, laterVars>>

(***************************************************************************)
(* infrastructure/graphql/graphql.client.ts: GraphQLClient                 *)
(*                                                                         *)
(* Error messages are sequences of characters, so that                     *)
(* String.prototype.includes is a substring test.  Time is in              *)
(* milliseconds.  this.rateLimitWindow is kept as its age,                 *)
(* Date.now() - this.rateLimitWindow, which is all the code reads of it;   *)
(* the value 0 the constructor assigns lies further back than any window.  *)
(***************************************************************************)

\* haystack.includes(needle)
Includes(haystack, needle) ==
    \E i \in 0..(Len(haystack) - Len(needle)) :
        SubSeq(haystack, i + 1, i + Len(needle)) = needle

\* values a request attempt may throw: Error objects and a thrown string
ErrTimeout      == [isError |-> TRUE,  message |-> <<"R", "e", "q", "u", "e", "s", "t", " ", "t", "i", "m", "e", "o", "u", "t">>]
ErrNetwork      == [isError |-> TRUE,  message |-> <<"n", "e", "t", "w", "o", "r", "k", " ", "d", "o", "w", "n">>]
ErrNetworkUpper == [isError |-> TRUE,  message |-> <<"N", "e", "t", "w", "o", "r", "k", " ", "e", "r", "r", "o", "r">>]
Err500 ==
    [isError |-> TRUE,
     message |-> <<"H", "T", "T", "P", " ", "e", "r", "r", "o", "r", "!", " ", "s", "t", "a", "t", "u", "s", ":", " ">> \o <<"5", "0", "0">>]

Err503 ==
    [isError |-> TRUE,
     message |-> <<"H", "T", "T", "P", " ", "e", "r", "r", "o", "r", "!", " ", "s", "t", "a", "t", "u", "s", ":", " ">> \o <<"5", "0", "3">>]

Err502 ==
    [isError |-> TRUE,
     message |-> <<"H", "T", "T", "P", " ", "e", "r", "r", "o", "r", "!", " ", "s", "t", "a", "t", "u", "s", ":", " ">> \o <<"5", "0", "2">>]

Err404 ==
    [isError |-> TRUE,
     message |-> <<"H", "T", "T", "P", " ", "e", "r", "r", "o", "r", "!", " ", "s", "t", "a", "t", "u", "s", ":", " ">> \o <<"4", "0", "4">>]

ErrGraphQL      == [isError |-> TRUE,  message |-> <<"G", "r", "a", "p", "h", "Q", "L", " ", "E", "r", "r", "o", "r", ":", " ", "T", "e", "s", "t", " ", "e", "r", "r", "o", "r">>]

ThrownString    == [isError |-> FALSE, message |-> <<"t", "i", "m", "e", "o", "u", "t">>]

ThrownValues ==
    {ErrTimeout, ErrNetwork, ErrNetworkUpper, Err500, Err503, Err502, Err404,
     ErrGraphQL, ThrownString}

shouldRetry_Always(error) == TRUE

\* GraphQLClient.shouldRetry
shouldRetry(error) ==
    IF error.isError
    THEN \/ Includes(error.message, <<"n", "e", "t", "w", "o", "r", "k">>)
         \/ Includes(error.message, <<"t", "i", "m", "e", "o", "u", "t">>)
         \/ Includes(error.message, <<"5", "0", "0">>)
         \/ Includes(error.message, <<"5", "0", "3">>)
    ELSE FALSE

\* GraphQLClient.toLinearError
toLinearError(error) ==
    IF error.isError
    THEN [isError |-> TRUE, message |-> error.message, code |-> "GRAPHQL_ERROR"]
    ELSE [isError |-> TRUE, message |-> error.message, code |-> "UNKNOWN_ERROR"]

DefaultMaxRetries == 3

\* httpConfig.maxRetries || 3
MaxAttempts(http) ==
    IF http.maxRetries = 0 THEN DefaultMaxRetries ELSE http.maxRetries

BackoffBaseMs == 1000

BackoffCapMs == 10000

Min(a, b) == IF a <= b THEN a ELSE b

backoff_Uncapped(attempt) == BackoffBaseMs * 2 ^ (attempt - 1)

\* Math.min(1000 * Math.pow(2, attempt - 1), 10000)
backoff(attempt) == Min(BackoffBaseMs * 2 ^ (attempt - 1), BackoffCapMs)

MinTimeoutMs == 1000

MinWindowMs == 1000

\* ConfigService.validateConfig, the checks on config.http
validateConfig(http) ==
    /\ ~(http.timeout < MinTimeoutMs)
    /\ ~(http.maxRetries < 0)
    /\ http.rateLimit # <<>> =>
          /\ ~(http.rateLimit[1].maxRequests < 1)
          /\ ~(http.rateLimit[1].windowMs < MinWindowMs)

(***************************************************************************)
(* GraphQLClient.execute as a state machine: several execute calls may be  *)
(* pending at once (executeBatch and the bulk operations start them        *)
(* together); each runs between its awaits without interruption.           *)
(***************************************************************************)

NumCalls == 2

MaxRetriesConfig == 6

MaxRequestsConfig == 2

MaxWindowSteps == 2

CallIds == 1..NumCalls

\* time advances in steps of the smallest duration the code uses
TimeStep == MinWindowMs

\* an age beyond every configured window
AgeCap == (MaxWindowSteps + 1) * TimeStep

\* http configurations the environment may ask for, valid or not
HttpConfigCandidates ==
    {[timeout |-> 30000, maxRetries |-> n, rateLimit |-> r] :
        n \in (-1)..MaxRetriesConfig,
        r \in {<<>>} \cup
              {<<[maxRequests |-> m, windowMs |-> k * TimeStep]>> :
                  m \in 0..MaxRequestsConfig, k \in 0..MaxWindowSteps}}

NewCall ==
    [pc |-> "idle", timer |-> 0, delay |-> <<>>, attempt |-> 0, attempts |-> 0,
     waits |-> <<>>, settled |-> <<>>]

\* private rateLimitWindow: number = 0; private rateLimitRequests: number = 0;
\* the configuration is one that passed ConfigService.validateConfig
InitClient ==
    /\ httpConfig \in {c \in HttpConfigCandidates : validateConfig(c)}
    /\ rateLimitWindow = [set |-> FALSE, age |-> 0]
    /\ rateLimitRequests = 0
    /\ gatePasses = 0
    /\ calls = [c \in CallIds |-> NewCall]

\* one caller, every valid configuration, every thrown value
InitOneCaller ==
    /\ InitClient
    /\ launched = 1
    /\ faults = ThrownValues

\* concurrent callers, at most one retry, one retryable and one other thrown
\* value
InitConcurrentCallers ==
    /\ InitClient
    /\ httpConfig.maxRetries \in {1, 2}
    /\ launched = NumCalls
    /\ faults = {ErrTimeout, Err404}

\* Date.now() - this.rateLimitWindow
WindowAge(window) == IF window.set THEN window.age ELSE AgeCap

WindowNow == [set |-> TRUE, age |-> 0]

checkRateLimit_NoWait ==
    IF httpConfig.rateLimit = <<>>
    THEN [window |-> rateLimitWindow, requests |-> rateLimitRequests,
          reset |-> FALSE, wait |-> <<>>]
    ELSE LET expired == WindowAge(rateLimitWindow) > httpConfig.rateLimit[1].windowMs
         IN  [window |-> IF expired THEN WindowNow ELSE rateLimitWindow,
              requests |-> IF expired THEN 0 ELSE rateLimitRequests,
              reset |-> expired, wait |-> <<>>]

\* GraphQLClient.checkRateLimit up to its await, run when the fields hold
\* `window` and `requests`: the window and counter it leaves, and the time
\* it decides to wait (<<>>: none)
checkRateLimitOn(window, requests) ==
    IF httpConfig.rateLimit = <<>>
    THEN [window |-> window, requests |-> requests, reset |-> FALSE, wait |-> <<>>]
    ELSE LET rateLimit == httpConfig.rateLimit[1]
             expired   == WindowAge(window) > rateLimit.windowMs
             window2   == IF expired THEN WindowNow ELSE window
             requests2 == IF expired THEN 0 ELSE requests
         IN  [window |-> window2, requests |-> requests2, reset |-> expired,
              wait |-> IF requests2 >= rateLimit.maxRequests
                       THEN <<rateLimit.windowMs - WindowAge(window2)>>
                       ELSE <<>>]

\* GraphQLClient.checkRateLimit on the current fields
checkRateLimit == checkRateLimitOn(rateLimitWindow, rateLimitRequests)

\* GraphQLClient.updateRateLimit
updateRateLimit ==
    IF httpConfig.rateLimit = <<>> THEN rateLimitRequests ELSE rateLimitRequests + 1

\* execute(operation) is called by a caller with no call pending:
\* checkRateLimit runs; the call either is let through or waits for the end
\* of the window.
Execute(c) ==
    /\ c <= launched
    /\ calls[c].pc \in {"idle", "resolved", "rejected"}
    /\ gatePasses <= MaxRequestsConfig
    /\ LET r == checkRateLimit
       IN  /\ rateLimitWindow' = r.window
           /\ rateLimitRequests' = r.requests
           /\ IF r.wait # <<>>
              THEN /\ calls' = [calls EXCEPT ![c] = [NewCall EXCEPT !.pc = "rateWait",
                                                                  !.timer = r.wait[1],
                                                                  !.delay = r.wait]]
                   /\ gatePasses' = IF r.reset THEN 0 ELSE gatePasses
              ELSE /\ calls' = [calls EXCEPT ![c] = [NewCall EXCEPT !.pc = "gatePassed"]]
                   /\ gatePasses' = IF httpConfig.rateLimit = <<>> THEN gatePasses
                                    ELSE IF r.reset THEN 1 ELSE gatePasses + 1
    /\ UNCHANGED <<httpConfig, launched, faults, toolVars, handlerVars, batchVars, builderVars, laterVars>>

\* the setTimeout of checkRateLimit fires: the window and the counter are
\* reset and the call is let through
RateLimitTimerFires(c) ==
    /\ calls[c].pc = "rateWait"
    /\ calls[c].timer = 0
    /\ rateLimitWindow' = WindowNow
    /\ rateLimitRequests' = 0
    /\ gatePasses' = 1
    /\ calls' = [calls EXCEPT ![c].pc = "gatePassed"]
    /\ UNCHANGED <<httpConfig, launched, faults, toolVars, handlerVars, batchVars, builderVars, laterVars>>

\* the call rejects: execute's catch block rethrows toLinearError(error)
Rejected(callState, error) ==
    [callState EXCEPT !.pc = "rejected", !.timer = 0,
                      !.settled = <<toLinearError(error)>>]

\* new Error(`Max retries (${maxRetries}) exceeded`); maxRetries has one digit here
ErrMaxRetries(maxRetries) ==
    [isError |-> TRUE,
     message |-> <<"M", "a", "x", " ", "r", "e", "t", "r", "i", "e", "s", " ", "(">>
                 \o <<ToString(maxRetries)>> \o <<")", " ", "e", "x", "c", "e", "e", "d", "e", "d">>]

\* The catch block of executeWithRetry for an error thrown in attempt
\* `attempt`: wait and retry, or rethrow.
CatchInRetry(callState, attempt, error) ==
    IF shouldRetry(error) /\ attempt < MaxAttempts(httpConfig)
    THEN [callState EXCEPT !.pc = "backoff", !.attempt = attempt,
                           !.timer = backoff(attempt),
                           !.waits = Append(@, backoff(attempt))]
    ELSE Rejected([callState EXCEPT !.attempt = attempt], error)

\* executeWithRetry(query, variables, attempt) up to its request
executeWithRetry(callState, attempt) ==
    IF attempt > MaxAttempts(httpConfig)
    THEN CatchInRetry(callState, attempt, ErrMaxRetries(MaxAttempts(httpConfig)))
    ELSE [callState EXCEPT !.pc = "request", !.attempt = attempt, !.attempts = @ + 1]

\* execute continues after `await this.checkRateLimit()`: the first attempt
StartAttempt(c) ==
    /\ calls[c].pc = "gatePassed"
    /\ calls' = [calls EXCEPT ![c] = executeWithRetry(calls[c], 1)]
    /\ UNCHANGED <<httpConfig, rateLimitWindow, rateLimitRequests, gatePasses, launched,
                   faults, toolVars, handlerVars, batchVars, builderVars, laterVars>>

\* what the server may put in the `errors` field of a response: nothing
\* (a response with data), or a list of structured errors
ResponseErrors == {<<>>, <<<<[message |-> "Test error"]>>>>}

\* the request of the current attempt returns a response (of operation c,
\* to attempt number `response`): executeWithRetry returns it, execute
\* counts the request and resolves with it
AttemptSucceeds(c, errors) ==
    /\ calls[c].pc = "request"
    /\ rateLimitRequests' = updateRateLimit
    /\ calls' = [calls EXCEPT ![c].pc = "resolved",
                              ![c].settled = <<[op |-> c, response |-> calls[c].attempt,
                                               errors |-> errors]>>]
    /\ UNCHANGED <<httpConfig, rateLimitWindow, gatePasses, launched, faults, toolVars,
                   handlerVars, batchVars, builderVars, laterVars>>

\* the request of the current attempt throws
AttemptFails(c, error) ==
    /\ calls[c].pc = "request"
    /\ calls' = [calls EXCEPT ![c] = CatchInRetry(calls[c], calls[c].attempt, error)]
    /\ UNCHANGED <<httpConfig, rateLimitWindow, rateLimitRequests, gatePasses, launched,
                   faults, toolVars, handlerVars, batchVars, builderVars, laterVars>>

\* the backoff setTimeout fires: the next attempt
BackoffTimerFires(c) ==
    /\ calls[c].pc = "backoff"
    /\ calls[c].timer = 0
    /\ calls' = [calls EXCEPT ![c] = executeWithRetry(calls[c], calls[c].attempt + 1)]
    /\ UNCHANGED <<httpConfig, rateLimitWindow, rateLimitRequests, gatePasses, launched,
                   faults, toolVars, handlerVars, batchVars, builderVars, laterVars>>

\* time passes: pending timers come closer, the window grows older
Tick ==
    /\ \/ \E c \in CallIds : calls[c].timer > 0
       \/ rateLimitWindow.set /\ rateLimitWindow.age < AgeCap
    /\ calls' = [c \in CallIds |->
                    [calls[c] EXCEPT !.timer = IF @ > TimeStep THEN @ - TimeStep ELSE 0]]
    /\ rateLimitWindow' =
          IF rateLimitWindow.set
          THEN [rateLimitWindow EXCEPT !.age = Min(@ + TimeStep, AgeCap)]
          ELSE rateLimitWindow
    /\ UNCHANGED <<httpConfig, rateLimitRequests, gatePasses, launched, faults, toolVars,
                   handlerVars, batchVars, builderVars, laterVars>>

NextClient ==
    \/ \E c \in CallIds : Execute(c)
    \/ \E c \in CallIds : RateLimitTimerFires(c)
    \/ \E c \in CallIds : StartAttempt(c)
    \/ \E c \in CallIds : \E errors \in ResponseErrors : AttemptSucceeds(c, errors)
    \/ \E c \in CallIds : \E error \in faults : AttemptFails(c, error)
    \/ \E c \in CallIds : BackoffTimerFires(c)
    \/ Tick

(***************************************************************************)
(* GraphQLClient.executeBatch: Promise.all over the execute calls of the   *)
(* operations.  Operation i of the batch is execute call i.                *)
(***************************************************************************)

\* this.execute(operation) up to its first await, for operation c, run when
\* the client's fields and calls are those of `st`
ExecuteOn(st, c) ==
    LET r == checkRateLimitOn(st.window, st.requests)
    IN  IF r.wait # <<>>
        THEN [window |-> r.window, requests |-> r.requests,
              passes |-> IF r.reset THEN 0 ELSE st.passes,
              calls |-> [st.calls EXCEPT ![c] = [NewCall EXCEPT !.pc = "rateWait",
                                                               !.timer = r.wait[1],
                                                               !.delay = r.wait]]]
        ELSE [window |-> r.window, requests |-> r.requests,
              passes |-> IF httpConfig.rateLimit = <<>> THEN st.passes
                         ELSE IF r.reset THEN 1 ELSE st.passes + 1,
              calls |-> [st.calls EXCEPT ![c] = [NewCall EXCEPT !.pc = "gatePassed"]]]

\* operations.map(operation => this.execute(operation)), operations c..n
RECURSIVE MapExecute(_, _, _)
MapExecute(st, c, n) ==
    IF c > n THEN st ELSE MapExecute(ExecuteOn(st, c), c + 1, n)

\* results.map((result, index) => ({success, results, errors}))
BatchResults(results) ==
    [i \in 1..Len(results) |->
        [success |-> ~Truthy(results[i].errors),
         results |-> <<results[i]>>,
         errors  |-> IF results[i].errors = <<>> THEN <<>>
                     ELSE <<[j \in 1..Len(results[i].errors[1]) |->
                                results[i].errors[1][j].message]>>]]

\* executeBatch(operations) is called with n operations, all execute calls
\* of an earlier batch having settled: every operation's execute call is
\* started, in order, before anything else runs
ExecuteBatch(n) ==
    /\ batch.pc \in {"idle", "resolved", "rejected"}
    /\ \A c \in CallIds : calls[c].pc \in {"idle", "resolved", "rejected"}
    /\ gatePasses <= MaxRequestsConfig
    /\ LET st == MapExecute([window |-> rateLimitWindow, requests |-> rateLimitRequests,
                             passes |-> gatePasses,
                             calls |-> [c \in CallIds |-> NewCall]], 1, n)
       IN  /\ rateLimitWindow' = st.window
           /\ rateLimitRequests' = st.requests
           /\ gatePasses' = st.passes
           /\ calls' = st.calls
    /\ batch' = [pc |-> "pending", n |-> n]
    /\ UNCHANGED <<httpConfig, launched, faults, toolVars, handlerVars, builderVars, laterVars>>

\* every execute call of the batch has resolved: Promise.all resolves with
\* the responses in the order of the operations, executeBatch returns
BatchResolves ==
    /\ batch.pc = "pending"
    /\ \A c \in 1..batch.n : calls[c].pc = "resolved"
    /\ batch' = [pc |-> "resolved", n |-> batch.n,
                 value |-> BatchResults([c \in 1..batch.n |-> calls[c].settled[1]])]
    /\ UNCHANGED <<clientVars, toolVars, handlerVars, builderVars, laterVars>>

\* an execute call of the batch has rejected: Promise.all rejects with its
\* error, the catch block of executeBatch rethrows toLinearError(error)
BatchRejects(c) ==
    /\ batch.pc = "pending"
    /\ c \in 1..batch.n
    /\ calls[c].pc = "rejected"
    /\ batch' = [pc |-> "rejected", n |-> batch.n,
                 error |-> toLinearError(calls[c].settled[1])]
    /\ UNCHANGED <<clientVars, toolVars, handlerVars, builderVars, laterVars>>

\* a client used for batches only
InitBatchClient ==
    /\ InitClient
    /\ httpConfig.maxRetries = 2
    /\ launched = 0
    /\ faults = {ErrTimeout, Err404}

NextBatch ==
    \/ \E n \in 0..NumCalls : ExecuteBatch(n)
    \/ BatchResolves
    \/ \E c \in CallIds : BatchRejects(c)
    \/ \E c \in CallIds : RateLimitTimerFires(c)
    \/ \E c \in CallIds : StartAttempt(c)
    \/ \E c \in CallIds : \E errors \in ResponseErrors : AttemptSucceeds(c, errors)
    \/ \E c \in CallIds : \E error \in faults : AttemptFails(c, error)
    \/ \E c \in CallIds : BackoffTimerFires(c)
    \/ Tick

(***************************************************************************)
(* infrastructure/graphql/query-builder.ts: QueryBuilder                   *)
(*                                                                         *)
(* Text is modelled as its sequence of GraphQL tokens: a name is one       *)
(* token, each punctuator ("!", "$", ":", "(", "{", "...") is one token,   *)
(* white space and commas separate tokens and the empty string has no      *)
(* token.  A type such as String! is <<"String", "!">>.  An object is the  *)
(* sequence of its entries [key, value] in insertion order.                *)
(***************************************************************************)

\* type.endsWith('!')
endsWith(text, token) == text # <<>> /\ text[Len(text)] = token

\* the tokens of `${name}`
NameTokens(name) == IF name = "" THEN <<>> ELSE <<name>>

\* pieces.join(separator), the separator being the token sequence `separator`
RECURSIVE Join(_, _)
Join(pieces, separator) ==
    IF pieces = <<>> THEN <<>>
    ELSE IF Len(pieces) = 1 THEN pieces[1]
    ELSE pieces[1] \o separator \o Join(Tail(pieces), separator)

\* the keys of an object, in order
Keys(object) == [i \in 1..Len(object) |-> object[i].key]

\* 'key' in object
HasKey(object, key) == \E i \in 1..Len(object) : object[i].key = key

\* object[key] for a key the object has
ValueOf(object, key) ==
    object[CHOOSE i \in 1..Len(object) : object[i].key = key].value

\* { ...a, ...b }: the entries of a, each overwritten in place by the entry
\* of b with its key, then the entries of b with new keys
RECURSIVE Spread(_, _)
Spread(a, b) ==
    IF b = <<>> THEN a
    ELSE LET e == b[1]
             merged ==
                 IF HasKey(a, e.key)
                 THEN [i \in 1..Len(a) |-> IF a[i].key = e.key THEN e ELSE a[i]]
                 ELSE Append(a, e)
         IN  Spread(merged, Tail(b))

\* new QueryBuilder(operationType, operationName)
NewQueryBuilder(operationType, operationName) ==
    [operationType |-> operationType, operationName |-> operationName,
     selections |-> <<>>, fragments |-> <<>>, variables |-> <<>>]

\* QueryBuilder.addVariable; value: undefined
addVariable(b, name, type, required) ==
    [b EXCEPT !.variables =
        Append(@, [name |-> name, type |-> type, required |-> required, value |-> <<>>])]

\* this.variables.find(v => v.name === name): its index, 0 when undefined
FindVariable(b, name) ==
    IF \E i \in 1..Len(b.variables) : b.variables[i].name = name
    THEN CHOOSE i \in 1..Len(b.variables) :
            /\ b.variables[i].name = name
            /\ \A j \in 1..(i - 1) : b.variables[j].name # name
    ELSE 0

setVariableValue_Declaring(b, name, value) ==
    IF FindVariable(b, name) # 0
    THEN [b EXCEPT !.variables[FindVariable(b, name)].value = value]
    ELSE [b EXCEPT !.variables =
             Append(@, [name |-> name, type |-> <<"String">>, required |-> FALSE,
                        value |-> value])]

\* QueryBuilder.setVariableValue
setVariableValue(b, name, value) ==
    IF FindVariable(b, name) # 0
    THEN [b EXCEPT !.variables[FindVariable(b, name)].value = value]
    ELSE b

\* QueryBuilder.addFragment
addFragment(b, name, on, fields) ==
    [b EXCEPT !.fragments = Append(@, [name |-> name, on |-> on, fields |-> fields])]

\* QueryBuilder.select
select(b, fields) == [b EXCEPT !.selections = Spread(@, fields)]

renderType_AlwaysBang(v) == IF v.required THEN v.type \o <<"!">> ELSE v.type

\* const type = v.required && !v.type.endsWith('!') ? `${v.type}!` : v.type
renderType(v) ==
    IF v.required /\ ~endsWith(v.type, "!") THEN v.type \o <<"!">> ELSE v.type

\* QueryBuilder.buildVariableDefinitions
buildVariableDefinitions(b) ==
    IF Len(b.variables) = 0 THEN <<>>
    ELSE Join([i \in 1..Len(b.variables) |->
                  <<"$">> \o NameTokens(b.variables[i].name) \o <<":">>
                      \o renderType(b.variables[i])],
              <<>>)

buildVariables_All(b) ==
    ObjectLiteral([i \in 1..Len(b.variables) |->
                      [key |-> b.variables[i].name,
                       value |-> IF b.variables[i].value = <<>> THEN "undefined"
                                 ELSE b.variables[i].value[1]]])

\* QueryBuilder.buildVariables: acc[v.name] = v.value for the variables
\* whose value is not undefined
buildVariables(b) ==
    LET bound == SelectSeq(b.variables, LAMBDA v : v.value # <<>>)
    IN  ObjectLiteral([i \in 1..Len(bound) |->
                          [key |-> bound[i].name, value |-> bound[i].value[1]]])

\* QueryBuilder.buildFragmentDefinitions
buildFragmentDefinitions(b) ==
    Join([i \in 1..Len(b.fragments) |->
             <<"fragment">> \o NameTokens(b.fragments[i].name) \o <<"on">>
                 \o NameTokens(b.fragments[i].on) \o <<"{">> \o b.fragments[i].fields
                 \o <<"}">>],
         <<>>)

\* A selection value is true, false, a string (the name after __fragment)
\* or an object of selections.
True == [kind |-> "true"]

StringValue(text) == [kind |-> "string", text |-> text]

ObjectValue(fields) == [kind |-> "object", fields |-> fields]

\* `(${Object.entries(value.__args).map(...).join(', ')})`
renderArgs(args) ==
    <<"(">> \o Join([i \in 1..Len(args) |-> <<args[i].key, ":", args[i].value.text>>], <<>>)
        \o <<")">>

\* QueryBuilder.buildSelections; the indentation is white space
RECURSIVE buildSelections(_)
buildSelections(selections) ==
    Join([i \in 1..Len(selections) |->
             LET key   == selections[i].key
                 value == selections[i].value
             IN  IF value.kind = "true" THEN <<key>>
                 ELSE IF value.kind = "object"
                 THEN LET args == IF HasKey(value.fields, "__args")
                                  THEN renderArgs(ValueOf(value.fields, "__args").fields)
                                  ELSE <<>>
                      IN  IF HasKey(value.fields, "__fragment")
                          THEN <<key>> \o args
                                  \o <<"{", "...", ValueOf(value.fields, "__fragment").text, "}">>
                          ELSE <<key>> \o args \o <<"{">>
                                  \o buildSelections(SelectSeq(value.fields,
                                                               LAMBDA e : e.key # "__args"))
                                  \o <<"}">>
                 ELSE <<>>],
         <<>>)

\* QueryBuilder.buildQuery: the template literal with its interpolations
buildQuery(b) ==
    LET variableDefinitions == buildVariableDefinitions(b)
        fragmentDefinitions == buildFragmentDefinitions(b)
        selections          == buildSelections(b.selections)
        query               == <<b.operationType>> \o NameTokens(b.operationName)
        withVars            == IF variableDefinitions # <<>>
                               THEN query \o <<"(">> \o variableDefinitions \o <<")">>
                               ELSE query
    IN  withVars \o <<"{">> \o selections \o <<"}">> \o fragmentDefinitions

\* the index of the "}" that closes a "{" opened before index i, 0 if none
RECURSIVE ClosingBrace(_, _, _)
ClosingBrace(text, i, depth) ==
    IF i > Len(text) THEN 0
    ELSE IF text[i] = "{" THEN ClosingBrace(text, i + 1, depth + 1)
    ELSE IF text[i] = "}"
    THEN IF depth = 1 THEN i ELSE ClosingBrace(text, i + 1, depth - 1)
    ELSE ClosingBrace(text, i + 1, depth)

\* the index of the first `token` at or after index i, 0 if none
RECURSIVE IndexOf(_, _, _)
IndexOf(text, token, i) ==
    IF i > Len(text) THEN 0
    ELSE IF text[i] = token THEN i
    ELSE IndexOf(text, token, i + 1)

Punctuators == {"(", ")", "{", "}", "$", ":", "!", "...", "[", "]"}

SyntaxError == [ok |-> FALSE]

\* graphql parse, the fragment definitions from index i on:
\* "fragment" Name "on" Name "{" selection+ "}"
RECURSIVE ParseFragments(_, _)
ParseFragments(text, i) ==
    IF i > Len(text) THEN [ok |-> TRUE, definitions |-> <<>>]
    ELSE IF /\ Len(text) >= i + 6
            /\ text[i] = "fragment"
            /\ text[i + 1] \notin Punctuators \cup {"on"}
            /\ text[i + 2] = "on"
            /\ text[i + 3] \notin Punctuators
            /\ text[i + 4] = "{"
            /\ ClosingBrace(text, i + 5, 1) > i + 5
    THEN LET close == ClosingBrace(text, i + 5, 1)
             rest  == ParseFragments(text, close + 1)
         IN  IF rest.ok
             THEN [ok |-> TRUE,
                   definitions |->
                       <<[kind |-> "FragmentDefinition", name |-> text[i + 1],
                          typeCondition |-> text[i + 3],
                          selectionSet |-> SubSeq(text, i + 5, close - 1)]>>
                           \o rest.definitions]
             ELSE SyntaxError
    ELSE SyntaxError

\* graphql parse of the text buildQuery produces: an operation definition
\* (type, optional name, optional variable definitions, a selection set
\* that is not empty) followed by fragment definitions
parse(text) ==
    IF Len(text) < 3 \/ text[1] \notin {"query", "mutation"} THEN SyntaxError
    ELSE LET hasName   == text[2] \notin Punctuators
             afterName == IF hasName THEN 3 ELSE 2
             hasVars   == text[afterName] = "("
             closeVars == IF hasVars THEN IndexOf(text, ")", afterName) ELSE afterName - 1
             open      == closeVars + 1
             close     == ClosingBrace(text, open + 1, 1)
         IN  IF \/ (hasVars /\ closeVars <= afterName + 1)
                \/ open > Len(text)
                \/ text[open] # "{"
                \/ close <= open + 1
             THEN SyntaxError
             ELSE LET fragments == ParseFragments(text, close + 1)
                  IN  IF ~fragments.ok THEN SyntaxError
                      ELSE [ok |-> TRUE,
                            document |->
                                [kind |-> "Document",
                                 definitions |->
                                     <<[kind |-> "OperationDefinition",
                                        operation |-> text[1],
                                        name |-> IF hasName THEN <<text[2]>> ELSE <<>>,
                                        variableDefinitions |->
                                            SubSeq(text, afterName + 1, closeVars - 1),
                                        selectionSet |-> SubSeq(text, open + 1, close - 1)]>>
                                         \o fragments.definitions]]

\* QueryBuilder.buildOperation: what it returns, or that it throws
buildOperation(b) ==
    LET query     == buildQuery(b)
        variables == buildVariables(b)
        parsed    == parse(query)
    IN  IF ~parsed.ok
        THEN [threw |-> TRUE, message |-> "Syntax Error"]
        ELSE [threw |-> FALSE,
              document |-> parsed.document,
              variables |-> IF Cardinality(DOMAIN variables) > 0 THEN <<variables>> ELSE <<>>,
              operationName |-> b.operationName]

(***************************************************************************)
(* One QueryBuilder from its construction to buildOperation.               *)
(***************************************************************************)

MaxVariables == 2

MaxFragments == 2

OperationNames == {"", "GetIssue"}

VariableNames == {"id", "input"}

VariableTypes == {<<"String">>, <<"String", "!">>}

\* addVariable calls: id with every type and required flag, input as the
\* operations declare it
VariableDeclarations ==
    {[name |-> "id", type |-> type, required |-> required] :
        type \in VariableTypes, required \in BOOLEAN}
    \cup {[name |-> "input", type |-> <<"IssueCreateInput", "!">>, required |-> TRUE]}

\* values passed to setVariableValue: undefined or a value
VariableValues == {<<>>, <<"123">>}

FragmentInputs ==
    {[name |-> "IssueFields", on |-> "Issue", fields |-> <<"id", "title">>]}

IssueByFragment ==
    ObjectValue(<<[key |-> "__args",
                   value |-> ObjectValue(<<[key |-> "id", value |-> StringValue("$id")]>>)],
                  [key |-> "__fragment", value |-> StringValue("IssueFields")]>>)

\* { viewer: { id: true }, issue: { __args: { id: '$id' }, __fragment: 'IssueFields' } }
SelectViewerId ==
    <<[key |-> "viewer", value |-> ObjectValue(<<[key |-> "id", value |-> True]>>)],
      [key |-> "issue", value |-> IssueByFragment]>>

\* { viewer: { name: true } }
SelectViewerName ==
    <<[key |-> "viewer", value |-> ObjectValue(<<[key |-> "name", value |-> True]>>)]>>

\* the paths (key sequences) of the leaf fields of a selection object under
\* `prefix`; the arguments under __args are not fields
RECURSIVE LeafPaths(_, _)
LeafPaths(object, prefix) ==
    UNION {LET e == object[i]
           IN  IF e.key = "__args" THEN {}
               ELSE IF e.value.kind = "object"
               THEN LeafPaths(e.value.fields, Append(prefix, e.key))
               ELSE {Append(prefix, e.key)} : i \in 1..Len(object)}

SelectionInputs == {SelectViewerId, SelectViewerName}

\* QueryBuilder.query(name)
Query(name) ==
    /\ builder = <<>>
    /\ builder' = <<NewQueryBuilder("query", name)>>
    /\ UNCHANGED <<built, ignored, selected, toolVars, handlerVars, clientVars, batchVars, laterVars>>

\* QueryBuilder.mutation(name)
Mutation(name) ==
    /\ builder = <<>>
    /\ builder' = <<NewQueryBuilder("mutation", name)>>
    /\ UNCHANGED <<built, ignored, selected, toolVars, handlerVars, clientVars, batchVars, laterVars>>

AddVariable(declaration) ==
    /\ builder # <<>> /\ built = <<>>
    /\ Len(builder[1].variables) < MaxVariables
    /\ builder' = <<addVariable(builder[1], declaration.name, declaration.type,
                                declaration.required)>>
    /\ UNCHANGED <<built, ignored, selected, toolVars, handlerVars, clientVars, batchVars, laterVars>>

SetVariableValue(name, value) ==
    /\ builder # <<>> /\ built = <<>>
    /\ builder' = <<setVariableValue(builder[1], name, value)>>
    /\ ignored' = IF FindVariable(builder[1], name) = 0 THEN <<name>> ELSE ignored
    /\ UNCHANGED <<built, selected, toolVars, handlerVars, clientVars, batchVars, laterVars>>

AddFragment(fragment) ==
    /\ builder # <<>> /\ built = <<>>
    /\ Len(builder[1].fragments) < MaxFragments
    /\ builder' = <<addFragment(builder[1], fragment.name, fragment.on, fragment.fields)>>
    /\ UNCHANGED <<built, ignored, selected, toolVars, handlerVars, clientVars, batchVars, laterVars>>

Select(fields) ==
    /\ builder # <<>> /\ built = <<>>
    /\ builder' = <<select(builder[1], fields)>>
    /\ selected' = selected \cup LeafPaths(fields, <<>>)
    /\ UNCHANGED <<built, ignored, toolVars, handlerVars, clientVars, batchVars, laterVars>>

\* buildOperation(): the builder is not used after it
BuildOperation ==
    /\ builder # <<>> /\ built = <<>>
    /\ built' = <<buildOperation(builder[1])>>
    /\ UNCHANGED <<builder, ignored, selected, toolVars, handlerVars, clientVars, batchVars, laterVars>>

NextBuilder ==
    \/ \E name \in OperationNames : Query(name)
    \/ \E name \in OperationNames : Mutation(name)
    \/ \E declaration \in VariableDeclarations : AddVariable(declaration)
    \/ \E name \in VariableNames : \E value \in VariableValues : SetVariableValue(name, value)
    \/ \E fragment \in FragmentInputs : AddFragment(fragment)
    \/ \E fields \in SelectionInputs : Select(fields)
    \/ BuildOperation

NextHandlers ==
    \/ \E method \in MethodNames : \E args \in ArgsFor(method) : Invoke(method, args)
    \/ \E response \in Responses : ResponseArrives(response)

(***************************************************************************)
(* infrastructure/graphql/fragments and operations: the fragment registry  *)
(* and the operation catalog (IssueOperations, TeamOperations,             *)
(* ProjectOperations, UserOperations).  Every factory is a chain of        *)
(* QueryBuilder calls ending in buildOperation.                            *)
(***************************************************************************)

issueFields ==
    [name |-> "IssueFields", on |-> "Issue",
     fields |->
        <<"id", "title", "description", "priority", "estimate", "boardOrder",
          "sortOrder", "startedAt", "completedAt", "canceledAt", "dueDate",
          "createdAt", "updatedAt", "number",
          "state", "{", "id", "name", "type", "color", "}",
          "assignee", "{", "id", "name", "email", "displayName", "avatarUrl", "}",
          "creator", "{", "id", "name", "email", "displayName", "avatarUrl", "}",
          "labels", "{", "nodes", "{", "id", "name", "color", "description", "}", "}",
          "children", "{", "nodes", "{", "id", "title", "}", "}",
          "parent", "{", "id", "title", "}",
          "team", "{", "...", "TeamFields", "}">>]

teamFields ==
    [name |-> "TeamFields", on |-> "Team",
     fields |->
        <<"id", "name", "key", "description",
          "states", "{", "nodes", "{", "id", "name", "type", "color", "}", "}",
          "labels", "{", "nodes", "{", "id", "name", "color", "}", "}">>]

projectFields ==
    [name |-> "ProjectFields", on |-> "Project",
     fields |->
        <<"id", "name", "description", "icon", "color", "state", "startDate",
          "targetDate", "progress", "createdAt", "updatedAt",
          "lead", "{", "id", "name", "email", "displayName", "avatarUrl", "}">>]

userFields ==
    [name |-> "UserFields", on |-> "User",
     fields |-> <<"id", "name", "email", "displayName", "avatarUrl", "active">>]

\* the chain .addVariable(...)* on a builder
RECURSIVE AddVariables(_, _)
AddVariables(b, declarations) ==
    IF declarations = <<>> THEN b
    ELSE AddVariables(addVariable(b, declarations[1].name, declarations[1].type,
                                  declarations[1].required),
                      Tail(declarations))

\* the chain .setVariableValue(...)* on a builder
RECURSIVE SetVariableValues(_, _)
SetVariableValues(b, bindings) ==
    IF bindings = <<>> THEN b
    ELSE SetVariableValues(setVariableValue(b, bindings[1].name, bindings[1].value),
                           Tail(bindings))

\* the chain .addFragment(f.name, f.on, f.fields)* on a builder
RECURSIVE AddFragments(_, _)
AddFragments(b, fragments) ==
    IF fragments = <<>> THEN b
    ELSE AddFragments(addFragment(b, fragments[1].name, fragments[1].on,
                                  fragments[1].fields),
                      Tail(fragments))

\* `$${name}`, one token
Dollar(name) == "$" \o name

\* .addVariable('id', 'String!', true)
IdVariable == [name |-> "id", type |-> <<"String", "!">>, required |-> TRUE]

\* .addVariable('input', '<T>!', true)
InputVariable(type) == [name |-> "input", type |-> <<type, "!">>, required |-> TRUE]

\* { <field>: { __args: { <arg>: '$<arg>' }, __fragment: '<fragment>' } }
SelectByArg(field, arg, fragment) ==
    <<[key |-> field,
       value |-> ObjectValue(
           <<[key |-> "__args",
              value |-> ObjectValue(<<[key |-> arg, value |-> StringValue(Dollar(arg))]>>)],
             [key |-> "__fragment", value |-> StringValue(fragment)]>>)]>>

\* { <field>: { __args: {...}, <node>: { __fragment: '<fragment>' }, success: true } }
SelectMutation(field, args, node, fragment) ==
    <<[key |-> field,
       value |-> ObjectValue(
           <<[key |-> "__args",
              value |-> ObjectValue(
                  [i \in 1..Len(args) |->
                      [key |-> args[i], value |-> StringValue(Dollar(args[i]))]])],
             [key |-> node,
              value |-> ObjectValue(<<[key |-> "__fragment",
                                       value |-> StringValue(fragment)]>>)],
             [key |-> "success", value |-> True]>>)]>>

\* { <field>: { __args: { first: '$first', after: '$after' },
\*              nodes: { __fragment: '<fragment>' }, pageInfo: {...} } }
SelectConnection(field, fragment) ==
    <<[key |-> field,
       value |-> ObjectValue(
           <<[key |-> "__args",
              value |-> ObjectValue(<<[key |-> "first", value |-> StringValue("$first")],
                                      [key |-> "after", value |-> StringValue("$after")]>>)],
             [key |-> "nodes",
              value |-> ObjectValue(<<[key |-> "__fragment",
                                       value |-> StringValue(fragment)]>>)],
             [key |-> "pageInfo",
              value |-> ObjectValue(<<[key |-> "hasNextPage", value |-> True],
                                      [key |-> "hasPreviousPage", value |-> True],
                                      [key |-> "startCursor", value |-> True],
                                      [key |-> "endCursor", value |-> True]>>)]>>)]>>

\* JavaScript truthiness of an optional number: undefined and 0 are falsy
TruthyNumber(opt) == opt # <<>> /\ opt[1] # 0

\* options?.first and options?.after of an optional options object
OptionFirst(options) == IF options = <<>> THEN <<>> ELSE options[1].first

OptionAfter(options) == IF options = <<>> THEN <<>> ELSE options[1].after

\* the body shared by getIssues, getTeams, getProjects and getUsers: the
\* variables first: Int and after: String, the fragments, the connection
\* selection, then
\*   if (options?.first) query.setVariableValue('first', options.first)
\*   if (options?.after) query.setVariableValue('after', options.after)
PaginatedList(operationName, fragments, field, fragment, options) ==
    LET query  == select(
                      AddFragments(
                          AddVariables(NewQueryBuilder("query", operationName),
                              <<[name |-> "first", type |-> <<"Int">>, required |-> FALSE],
                                [name |-> "after", type |-> <<"String">>, required |-> FALSE]>>),
                          fragments),
                      SelectConnection(field, fragment))
        first  == IF TruthyNumber(OptionFirst(options))
                  THEN setVariableValue(query, "first", OptionFirst(options))
                  ELSE query
        after  == IF Truthy(OptionAfter(options))
                  THEN setVariableValue(first, "after", OptionAfter(options))
                  ELSE first
    IN  buildOperation(after)

\* a factory that binds every variable it declares
Bound(operationType, operationName, declarations, bindings, fragments, fields) ==
    buildOperation(
        select(AddFragments(
                   SetVariableValues(
                       AddVariables(NewQueryBuilder(operationType, operationName),
                                    declarations),
                       bindings),
                   fragments),
               fields))

IssueFragments_NoTeamFields == <<issueFields>>

IssueFragments == <<issueFields, teamFields>>

TeamFragments == <<teamFields>>

ProjectFragments == <<projectFields, userFields, teamFields, issueFields>>

UserFragments == <<userFields>>

IssueOperations_getIssue(id) ==
    Bound("query", "GetIssue", <<IdVariable>>, <<[name |-> "id", value |-> <<id>>]>>,
          IssueFragments, SelectByArg("issue", "id", "IssueFields"))

IssueOperations_getIssues(options) ==
    PaginatedList("GetIssues", IssueFragments, "issues", "IssueFields", options)

IssueOperations_createIssue(input) ==
    Bound("mutation", "CreateIssue", <<InputVariable("IssueCreateInput")>>,
          <<[name |-> "input", value |-> <<input>>]>>,
          IssueFragments, SelectMutation("issueCreate", <<"input">>, "issue", "IssueFields"))

IssueOperations_updateIssue(id, input) ==
    Bound("mutation", "UpdateIssue", <<IdVariable, InputVariable("IssueUpdateInput")>>,
          <<[name |-> "id", value |-> <<id>>], [name |-> "input", value |-> <<input>>]>>,
          IssueFragments,
          SelectMutation("issueUpdate", <<"id", "input">>, "issue", "IssueFields"))

TeamOperations_getTeam(id) ==
    Bound("query", "GetTeam", <<IdVariable>>, <<[name |-> "id", value |-> <<id>>]>>,
          TeamFragments, SelectByArg("team", "id", "TeamFields"))

TeamOperations_getTeams(options) ==
    PaginatedList("GetTeams", TeamFragments, "teams", "TeamFields", options)

TeamOperations_createTeam(input) ==
    Bound("mutation", "CreateTeam", <<InputVariable("TeamCreateInput")>>,
          <<[name |-> "input", value |-> <<input>>]>>,
          TeamFragments, SelectMutation("teamCreate", <<"input">>, "team", "TeamFields"))

TeamOperations_updateTeam(id, input) ==
    Bound("mutation", "UpdateTeam", <<IdVariable, InputVariable("TeamUpdateInput")>>,
          <<[name |-> "id", value |-> <<id>>], [name |-> "input", value |-> <<input>>]>>,
          TeamFragments,
          SelectMutation("teamUpdate", <<"id", "input">>, "team", "TeamFields"))

TeamOperations_getTeamByKey(key) ==
    Bound("query", "GetTeamByKey",
          <<[name |-> "key", type |-> <<"String", "!">>, required |-> TRUE]>>,
          <<[name |-> "key", value |-> <<key>>]>>,
          TeamFragments, SelectByArg("team", "key", "TeamFields"))

ProjectOperations_getProject(id) ==
    Bound("query", "GetProject", <<IdVariable>>, <<[name |-> "id", value |-> <<id>>]>>,
          ProjectFragments, SelectByArg("project", "id", "ProjectFields"))

ProjectOperations_getProjects(options) ==
    PaginatedList("GetProjects", ProjectFragments, "projects", "ProjectFields", options)

ProjectOperations_createProject(input) ==
    Bound("mutation", "CreateProject", <<InputVariable("ProjectCreateInput")>>,
          <<[name |-> "input", value |-> <<input>>]>>,
          ProjectFragments,
          SelectMutation("projectCreate", <<"input">>, "project", "ProjectFields"))

ProjectOperations_updateProject(id, input) ==
    Bound("mutation", "UpdateProject", <<IdVariable, InputVariable("ProjectUpdateInput")>>,
          <<[name |-> "id", value |-> <<id>>], [name |-> "input", value |-> <<input>>]>>,
          ProjectFragments,
          SelectMutation("projectUpdate", <<"id", "input">>, "project", "ProjectFields"))

UserOperations_getUser(id) ==
    Bound("query", "GetUser", <<IdVariable>>, <<[name |-> "id", value |-> <<id>>]>>,
          UserFragments, SelectByArg("user", "id", "UserFields"))

UserOperations_getUsers(options) ==
    PaginatedList("GetUsers", UserFragments, "users", "UserFields", options)

\* { viewer: { __fragment: 'UserFields' } }
UserOperations_getViewer ==
    Bound("query", "GetViewer", <<>>, <<>>, UserFragments,
          <<[key |-> "viewer",
             value |-> ObjectValue(<<[key |-> "__fragment",
                                      value |-> StringValue("UserFields")]>>)]>>)

(***************************************************************************)
(* The catalog in use: callers ask the factories for operations.           *)
(***************************************************************************)

\* identifiers and keys passed to the factories
CatalogIds == {"id-1", "id-2", "id-3"}

\* input objects passed to the create and update factories
CatalogInputs == {[title |-> "First"], [title |-> "Second"]}

\* page sizes and cursors a caller may provide: undefined, the falsy value,
\* other values
FirstValues == {<<>>, <<0>>, <<1>>, <<50>>}

AfterValues == {<<>>, <<"">>, <<"cursor-1">>, <<"cursor-2">>}

\* the optional options argument: undefined or an object
PageOptions ==
    {<<>>} \cup {<<[first |-> first, after |-> after]>> :
                    first \in FirstValues, after \in AfterValues}

PaginatedFactories == {"getIssues", "getTeams", "getProjects", "getUsers"}

NoFactoryCall == [factory |-> "none"]

\* the record of a call: the factory returned `operation` for `args`
Returned(factory, args, operation) ==
    [factory |-> factory, args |-> args, operation |-> operation]

GetIssue(id) ==
    /\ catalog' = Returned("getIssue", <<id>>, IssueOperations_getIssue(id))
    /\ UNCHANGED notCatalog

GetIssues(options) ==
    /\ catalog' = Returned("getIssues", <<options>>, IssueOperations_getIssues(options))
    /\ UNCHANGED notCatalog

CreateIssue(input) ==
    /\ catalog' = Returned("createIssue", <<input>>, IssueOperations_createIssue(input))
    /\ UNCHANGED notCatalog

UpdateIssue(id, input) ==
    /\ catalog' = Returned("updateIssue", <<id, input>>, IssueOperations_updateIssue(id, input))
    /\ UNCHANGED notCatalog

GetTeam(id) ==
    /\ catalog' = Returned("getTeam", <<id>>, TeamOperations_getTeam(id))
    /\ UNCHANGED notCatalog

GetTeams(options) ==
    /\ catalog' = Returned("getTeams", <<options>>, TeamOperations_getTeams(options))
    /\ UNCHANGED notCatalog

CreateTeam(input) ==
    /\ catalog' = Returned("createTeam", <<input>>, TeamOperations_createTeam(input))
    /\ UNCHANGED notCatalog

UpdateTeam(id, input) ==
    /\ catalog' = Returned("updateTeam", <<id, input>>, TeamOperations_updateTeam(id, input))
    /\ UNCHANGED notCatalog

GetTeamByKey(key) ==
    /\ catalog' = Returned("getTeamByKey", <<key>>, TeamOperations_getTeamByKey(key))
    /\ UNCHANGED notCatalog

GetProject(id) ==
    /\ catalog' = Returned("getProject", <<id>>, ProjectOperations_getProject(id))
    /\ UNCHANGED notCatalog

GetProjects(options) ==
    /\ catalog' = Returned("getProjects", <<options>>, ProjectOperations_getProjects(options))
    /\ UNCHANGED notCatalog

CreateProject(input) ==
    /\ catalog' = Returned("createProject", <<input>>, ProjectOperations_createProject(input))
    /\ UNCHANGED notCatalog

UpdateProject(id, input) ==
    /\ catalog' = Returned("updateProject", <<id, input>>, ProjectOperations_updateProject(id, input))
    /\ UNCHANGED notCatalog

GetUser(id) ==
    /\ catalog' = Returned("getUser", <<id>>, UserOperations_getUser(id))
    /\ UNCHANGED notCatalog

GetUsers(options) ==
    /\ catalog' = Returned("getUsers", <<options>>, UserOperations_getUsers(options))
    /\ UNCHANGED notCatalog

GetViewer ==
    /\ catalog' = Returned("getViewer", <<>>, UserOperations_getViewer)
    /\ UNCHANGED notCatalog

NextCatalog ==
    \/ \E id \in CatalogIds : GetIssue(id)
    \/ \E options \in PageOptions : GetIssues(options)
    \/ \E input \in CatalogInputs : CreateIssue(input)
    \/ \E id \in CatalogIds : \E input \in CatalogInputs : UpdateIssue(id, input)
    \/ \E id \in CatalogIds : GetTeam(id)
    \/ \E options \in PageOptions : GetTeams(options)
    \/ \E input \in CatalogInputs : CreateTeam(input)
    \/ \E id \in CatalogIds : \E input \in CatalogInputs : UpdateTeam(id, input)
    \/ \E key \in CatalogIds : GetTeamByKey(key)
    \/ \E id \in CatalogIds : GetProject(id)
    \/ \E options \in PageOptions : GetProjects(options)
    \/ \E input \in CatalogInputs : CreateProject(input)
    \/ \E id \in CatalogIds : \E input \in CatalogInputs : UpdateProject(id, input)
    \/ \E id \in CatalogIds : GetUser(id)
    \/ \E options \in PageOptions : GetUsers(options)
    \/ GetViewer

(***************************************************************************)
(* graphql/client.ts: LinearGraphQLClient, and the LinearGraphQLClient of  *)
(* infrastructure/graphql (createProjectWithIssues through the operation   *)
(* catalog).  A string that is split or parsed is a sequence of            *)
(* characters.  A JavaScript number is [value |-> n] or NaN.               *)
(***************************************************************************)

NaN == [nan |-> TRUE]

Number(n) == [value |-> n]

DecimalDigits == <<"0", "1", "2", "3", "4", "5", "6", "7", "8", "9">>

IsDigit(ch) == \E d \in 1..Len(DecimalDigits) : DecimalDigits[d] = ch

DigitValue(ch) == (CHOOSE d \in 1..Len(DecimalDigits) : DecimalDigits[d] = ch) - 1

\* text.split("-"): the pieces between the separators
RECURSIVE split(_, _)
split(text, separator) ==
    LET at == IndexOf(text, separator, 1)
    IN  IF at = 0 THEN <<text>>
        ELSE <<SubSeq(text, 1, at - 1)>> \o split(SubSeq(text, at + 1, Len(text)), separator)

\* pieces[i] of an array: undefined (<<>>) beyond its length
At(pieces, i) == IF i <= Len(pieces) THEN <<pieces[i]>> ELSE <<>>

\* the value of a sequence of digits
RECURSIVE DigitsValue(_)
DigitsValue(digits) ==
    IF digits = <<>> THEN 0
    ELSE 10 * DigitsValue(SubSeq(digits, 1, Len(digits) - 1))
            + DigitValue(digits[Len(digits)])

\* the longest prefix of text made of digits
RECURSIVE LeadingDigits(_)
LeadingDigits(text) ==
    IF text = <<>> \/ ~IsDigit(text[1]) THEN <<>>
    ELSE <<text[1]>> \o LeadingDigits(Tail(text))

\* parseFloat(x) for undefined or a string of letters, digits and "-": the
\* number written by the longest prefix that is a decimal literal, NaN when
\* there is none (undefined reads as the string "undefined")
parseFloat(opt) ==
    IF opt = <<>> THEN NaN
    ELSE LET text   == opt[1]
             signed == text # <<>> /\ text[1] = "-"
             digits == LeadingDigits(IF signed THEN Tail(text) ELSE text)
         IN  IF digits = <<>> THEN NaN
             ELSE Number(IF signed THEN 0 - DigitsValue(digits) ELSE DigitsValue(digits))

\* parseFloat(id.split("-")[1])
NumberOfIdentifier(id) == parseFloat(At(split(id, "-"), 2))

\* searchIssues: the request it sends.  filter.identifier.in is <<>> when
\* undefined and <<ids>> when it is an array (an array is truthy).
searchIssues(filter, first, after, orderBy) ==
    IF filter.identifierIn # <<>>
    THEN [query |-> "GET_ISSUES_BY_IDENTIFIER",
          variables |->
              [numbers |-> [i \in 1..Len(filter.identifierIn[1]) |->
                               NumberOfIdentifier(filter.identifierIn[1][i])]]]
    ELSE [query |-> "SEARCH_ISSUES_QUERY",
          variables |-> [filter |-> filter, first |-> first, after |-> after,
                         orderBy |-> orderBy]]

\* { ...issue, projectId }
WithProject(issue, projectId) ==
    [k \in (DOMAIN issue) \cup {"projectId"} |->
        IF k = "projectId" THEN projectId ELSE issue[k]]

\* issues.map(issue => ({ ...issue, projectId }))
issuesWithProject(issues, projectId) ==
    [i \in 1..Len(issues) |-> WithProject(issues[i], projectId)]

IssueRequests_NoProjectId(variant, issues, projectId) ==
    IF variant = "graphql"
    THEN <<[query |-> "CREATE_BATCH_ISSUES", variables |-> [input |-> [issues |-> issues]]]>>
    ELSE [i \in 1..Len(issues) |->
             [query |-> "CreateIssue", variables |-> [input |-> issues[i]]]]

\* the issue-creation requests createProjectWithIssues sends once the
\* project exists: graphql/client.ts sends one createBatchIssues request;
\* infrastructure/graphql sends createIssues, that is one createIssue
\* request per issue, all of them before the first is awaited
IssueRequests(variant, issues, projectId) ==
    IF variant = "graphql"
    THEN <<[query |-> "CREATE_BATCH_ISSUES",
            variables |-> [input |-> [issues |-> issuesWithProject(issues, projectId)]]]>>
    ELSE [i \in 1..Len(issues) |->
             [query |-> "CreateIssue",
              variables |-> [input |-> issuesWithProject(issues, projectId)[i]]]]

\* the project-creation request
ProjectRequest(variant, projectInput) ==
    [query |-> IF variant = "graphql" THEN "CREATE_PROJECT" ELSE "CreateProject",
     variables |-> [input |-> projectInput]]

\* execute: a rejected rawRequest is rethrown with the prefixed message
ExecuteError(response) ==
    [message |-> "GraphQL operation failed: " \o response.message]

(***************************************************************************)
(* One LinearGraphQLClient call as a state machine: the requests it sends  *)
(* and what it does with each response.                                    *)
(***************************************************************************)

MaxIdentifiers == 2

\* identifiers as callers write them: well formed, without "-", without a
\* number, with a number followed by letters, with more than one "-"
Identifiers ==
    {<<"E", "N", "G", "-", "7", "8">>, <<"E", "N", "G", "-", "7", "9">>,
     <<"E", "N", "G", "7", "8">>, <<"E", "N", "G", "-">>,
     <<"E", "N", "G", "-", "x", "7">>, <<"E", "N", "G", "-", "7", "x">>,
     <<"A", "-", "B", "-", "7", "8">>, <<"E", "N", "G", "-", "7", "8", "-", "1">>}

\* filters of searchIssues: by identifier, or by anything else
SearchFilters ==
    {[identifierIn |-> <<ids>>] : ids \in SeqUpTo(Identifiers, MaxIdentifiers)}
        \cup {[identifierIn |-> <<>>]}

LinearVariants == {"graphql", "infrastructure"}

LinearProjectInputs == {[name |-> "Q1 Planning", teamIds |-> <<"team-id-1">>]}

LinearIssueInputs ==
    {[title |-> "Setup", teamId |-> "team-id-1"],
     [title |-> "Moved", teamId |-> "team-id-1", projectId |-> "project-0"]}

ProjectIds == {"project-1", "project-2"}

\* what the server may answer to a request: data reporting success (with the
\* id of the project, for a project creation), data reporting success =
\* false, or a failure of the request
LinearResponses ==
    {[kind |-> "ok", id |-> id] : id \in ProjectIds}
        \cup {[kind |-> "unsuccessful"], [kind |-> "rejected", message |-> "Network error"]}

LinearIdle == [pc |-> "idle"]

InitLinear ==
    /\ linear = LinearIdle
    /\ sent = <<>>
    /\ answered = <<>>

\* searchIssues is called: the request goes out
SearchIssues(filter, first, after) ==
    /\ linear.pc = "idle"
    /\ linear' = [pc |-> "awaiting", method |-> "searchIssues", filter |-> filter,
                  pending |-> {1}, error |-> <<>>]
    /\ sent' = <<searchIssues(filter, first, after, "updatedAt")>>
    /\ answered' = <<>>
    /\ UNCHANGED notLinear

\* createProjectWithIssues is called: the project-creation request goes out
CreateProjectWithIssues(variant, projectInput, issues) ==
    /\ linear.pc = "idle"
    /\ linear' = [pc |-> "awaiting", method |-> "createProjectWithIssues",
                  variant |-> variant, projectInput |-> projectInput, issues |-> issues,
                  stage |-> "project", pending |-> {1}, project |-> <<>>,
                  error |-> <<>>]
    /\ sent' = <<ProjectRequest(variant, projectInput)>>
    /\ answered' = <<>>
    /\ UNCHANGED notLinear

\* the response to the search request: execute returns response.data or throws
SearchSettles(response) ==
    /\ linear.pc = "awaiting" /\ linear.method = "searchIssues"
    /\ linear' = IF response.kind = "rejected"
                 THEN [linear EXCEPT !.pc = "rejected", !.pending = {},
                             !.error = <<ExecuteError(response)>>]
                 ELSE [linear EXCEPT !.pc = "resolved", !.pending = {}]
    /\ answered' = Append(answered, [request |-> 1, response |-> response])
    /\ UNCHANGED <<sent, notLinear>>

\* the response to the project-creation request: a failure rejects the
\* call; success = false throws 'Failed to create project'; otherwise the
\* issue-creation requests go out (with no issue the infrastructure client
\* sends none and returns)
ProjectSettles(response) ==
    /\ linear.pc = "awaiting" /\ linear.method = "createProjectWithIssues"
    /\ linear.stage = "project"
    /\ answered' = Append(answered, [request |-> 1, response |-> response])
    /\ IF response.kind = "rejected"
       THEN /\ linear' = [linear EXCEPT !.pc = "rejected", !.pending = {},
                             !.error = <<ExecuteError(response)>>]
            /\ sent' = sent
       ELSE IF response.kind = "unsuccessful"
       THEN /\ linear' = [linear EXCEPT !.pc = "rejected", !.pending = {},
                             !.error = <<[message |-> "Failed to create project"]>>]
            /\ sent' = sent
       ELSE LET requests == IssueRequests(linear.variant, linear.issues, response.id)
            IN  /\ sent' = sent \o requests
                /\ linear' =
                      IF requests = <<>>
                      THEN [linear EXCEPT !.pc = "resolved", !.pending = {},
                               !.project = <<response.id>>, !.stage = "issues"]
                      ELSE [linear EXCEPT !.stage = "issues",
                               !.project = <<response.id>>,
                               !.pending = {1 + i : i \in 1..Len(requests)}]
    /\ UNCHANGED notLinear

\* the response to an issue-creation request.  graphql/client.ts: a failure
\* rejects, success = false throws 'Failed to create issues', else the call
\* returns.  infrastructure/graphql: Promise.all rejects with the first
\* failure and resolves when every createIssue has; reported success is
\* passed on, not checked.  A response that arrives after the call has
\* settled changes nothing.
IssueSettles(request, response) ==
    /\ linear.pc \in {"awaiting", "rejected"}
    /\ linear.method = "createProjectWithIssues"
    /\ linear.stage = "issues"
    /\ request \in linear.pending
    /\ answered' = Append(answered, [request |-> request, response |-> response])
    /\ LET left == linear.pending \ {request}
       IN  IF linear.pc = "rejected"
           THEN linear' = [linear EXCEPT !.pending = left]
           ELSE IF response.kind = "rejected"
           THEN linear' = [linear EXCEPT !.pc = "rejected", !.pending = left,
                              !.error = <<ExecuteError(response)>>]
           ELSE IF linear.variant = "graphql" /\ response.kind = "unsuccessful"
           THEN linear' = [linear EXCEPT !.pc = "rejected", !.pending = left,
                              !.error = <<[message |-> "Failed to create issues"]>>]
           ELSE IF left = {}
           THEN linear' = [linear EXCEPT !.pc = "resolved", !.pending = left]
           ELSE linear' = [linear EXCEPT !.pending = left]
    /\ UNCHANGED <<sent, notLinear>>

NextLinear ==
    \/ \E filter \in SearchFilters : SearchIssues(filter, 50, <<>>)
    \/ \E variant \in LinearVariants : \E projectInput \in LinearProjectInputs :
          \E issues \in SeqUpTo(LinearIssueInputs, MaxIssues) :
             CreateProjectWithIssues(variant, projectInput, issues)
    \/ \E response \in LinearResponses : SearchSettles(response)
    \/ \E response \in LinearResponses : ProjectSettles(response)
    \/ \E request \in 2..(MaxIssues + 1) : \E response \in LinearResponses :
          IssueSettles(request, response)

(***************************************************************************)
(* features/auth/services: TokenManager, PATService, OAuthService and      *)
(* AuthService.  Time is in milliseconds.  A configuration object is a     *)
(* function from the keys it has.  A token string is the sequence of its   *)
(* parts ("Bearer ", "lin_oauth_", a run of 64 hex digits, other text);    *)
(* the empty string is <<>>.                                               *)
(***************************************************************************)

\* const bufferTime = 5 * 60 * 1000
BufferTimeMs == 300000

\* (expiresIn || 60 * 60) * 1000 without expiresIn
DefaultExpiryMs == 3600000

\* JavaScript truthiness of an optional token string
TruthyText(opt) == opt # <<>> /\ opt[1] # <<>>

\* obj.key: undefined (<<>>) when the object has no such key
Get(obj, key) == IF key \in DOMAIN obj THEN <<obj[key]>> ELSE <<>>

\* TokenManager.calculateExpiryTime()
calculateExpiryTime(clock) == clock + DefaultExpiryMs

\* TokenManager.setTokenData: the new this.tokenData.  data has accessToken,
\* the optional refreshToken and the optional expiresAt.
TokenManager_setTokenData(data, clock) ==
    <<[accessToken  |-> data.accessToken,
       refreshToken |-> data.refreshToken,
       expiresAt    |-> IF TruthyNumber(data.expiresAt) THEN data.expiresAt[1]
                        ELSE calculateExpiryTime(clock)]>>

\* TokenManager.isTokenExpired
isTokenExpired(stored, clock) ==
    IF stored = <<>> \/ stored[1].expiresAt = 0 THEN TRUE
    ELSE clock >= stored[1].expiresAt - BufferTimeMs

\* TokenManager.getAccessToken: undefined (<<>>) or the token
TokenManager_getAccessToken(stored, clock) ==
    IF stored = <<>> \/ isTokenExpired(stored, clock) THEN <<>>
    ELSE <<stored[1].accessToken>>

\* TokenManager.getRefreshToken
TokenManager_getRefreshToken(stored) ==
    IF stored = <<>> THEN <<>> ELSE stored[1].refreshToken

\* TokenManager.hasValidToken
hasValidToken(stored, clock) ==
    /\ stored # <<>> /\ stored[1].accessToken # <<>>
    /\ ~isTokenExpired(stored, clock)

\* TokenManager.needsRefresh
needsRefresh(stored, clock) ==
    /\ TruthyText(TokenManager_getRefreshToken(stored))
    /\ isTokenExpired(stored, clock)

\* the runs of 64 hex digits that occur in tokens
Hex64 == {"hex64-1", "hex64-2"}

\* token.replace('Bearer ', ''): without the first 'Bearer '
WithoutBearer(token) ==
    LET at == IndexOf(token, "Bearer ", 1)
    IN  IF at = 0 THEN token
        ELSE SubSeq(token, 1, at - 1) \o SubSeq(token, at + 1, Len(token))

\* PATService.validateToken: /^lin_oauth_[a-f0-9]{64}$/ without 'Bearer '
validateToken(token) ==
    LET tokenWithoutPrefix == WithoutBearer(token)
    IN  /\ Len(tokenWithoutPrefix) = 2
        /\ tokenWithoutPrefix[1] = "lin_oauth_"
        /\ tokenWithoutPrefix[2] \in Hex64

\* PATService.initialize: the new this.accessToken, or the error thrown
PATService_initialize(config, accessToken) ==
    IF ~TruthyText(Get(config, "token"))
    THEN [threw |-> TRUE, message |-> "Personal access token is required",
          accessToken |-> accessToken]
    ELSE IF ~validateToken(config["token"])
    THEN [threw |-> TRUE, message |-> "Invalid token format", accessToken |-> accessToken]
    ELSE [threw |-> FALSE, accessToken |-> <<config["token"]>>]

\* PATService.getAccessToken
PATService_getAccessToken(accessToken) ==
    IF ~TruthyText(accessToken)
    THEN [threw |-> TRUE, message |-> "Personal access token not initialized"]
    ELSE [threw |-> FALSE,
          value |-> IF accessToken[1][1] = "Bearer " THEN accessToken[1]
                    ELSE <<"Bearer ">> \o accessToken[1]]

\* PATService.isAuthenticated
PATService_isAuthenticated(accessToken) ==
    TruthyText(accessToken) /\ validateToken(accessToken[1])

\* OAuthService.refreshToken up to its await: the POST it sends, or the error
OAuthService_refreshToken(config, stored) ==
    IF ~TruthyText(Get(config, "clientId")) \/ ~TruthyText(Get(config, "clientSecret"))
    THEN [threw |-> TRUE,
          message |-> "Client ID and client secret are required for token refresh"]
    ELSE IF ~TruthyText(TokenManager_getRefreshToken(stored))
    THEN [threw |-> TRUE, message |-> "No refresh token available"]
    ELSE [threw |-> FALSE,
          post |-> [grant_type |-> "refresh_token",
                    refresh_token |-> TokenManager_getRefreshToken(stored)[1]]]

\* OAuthService.handleCallback up to its await
OAuthService_handleCallback(config, code) ==
    IF \/ ~TruthyText(Get(config, "clientId"))
       \/ ~TruthyText(Get(config, "clientSecret"))
       \/ ~TruthyText(Get(config, "redirectUri"))
    THEN [threw |-> TRUE,
          message |-> "Client ID, client secret, and redirect URI are required for OAuth"]
    ELSE [threw |-> FALSE, post |-> [grant_type |-> "authorization_code", code |-> code]]

\* OAuthService.getAuthorizationUrl
OAuthService_getAuthorizationUrl(config, state) ==
    IF ~TruthyText(Get(config, "clientId")) \/ ~TruthyText(Get(config, "redirectUri"))
    THEN [threw |-> TRUE, message |-> "Client ID and redirect URI are required for OAuth"]
    ELSE [threw |-> FALSE,
          value |-> [url |-> "https://linear.app/oauth/authorize",
                     client_id |-> config["clientId"],
                     redirect_uri |-> config["redirectUri"], state |-> state]]

\* after the POST: this.tokenManager.setTokenData({ accessToken:
\* response.data.access_token, refreshToken: response.data.refresh_token,
\* expiresAt: Date.now() + response.data.expires_in * 1000 })
StoreTokenResponse(data, clock) ==
    TokenManager_setTokenData(
        [accessToken  |-> data.access_token,
         refreshToken |-> <<data.refresh_token>>,
         expiresAt    |-> <<clock + data.expires_in * 1000>>],
        clock)

\* Object.assign(target, source)
ObjectAssign(target, source) ==
    [k \in (DOMAIN target) \cup (DOMAIN source) |->
        IF k \in DOMAIN source THEN source[k] ELSE target[k]]

\* if (config.accessToken && !config.token) config.token = config.accessToken
BackwardCompatible(config) ==
    IF TruthyText(Get(config, "accessToken")) /\ ~TruthyText(Get(config, "token"))
    THEN ObjectAssign(config, [token |-> config["accessToken"]])
    ELSE config

\* if (config.type === 'pat' && config.token) this.tokenManager.setTokenData(...)
StorePat(config, stored, clock) ==
    IF Get(config, "type") = <<"pat">> /\ TruthyText(Get(config, "token"))
    THEN TokenManager_setTokenData(
             [accessToken |-> config["token"], refreshToken |-> <<>>, expiresAt |-> <<>>],
             clock)
    ELSE stored

\* AuthService.isAuthenticated
AuthService_isAuthenticated(config, accessToken, stored, clock) ==
    IF Get(config, "type") = <<"pat">> THEN PATService_isAuthenticated(accessToken)
    ELSE IF Get(config, "type") = <<"oauth">> THEN hasValidToken(stored, clock)
    ELSE FALSE

\* AuthService.needsTokenRefresh
AuthService_needsTokenRefresh(config, stored, clock) ==
    IF Get(config, "type") = <<"oauth">> THEN needsRefresh(stored, clock) ELSE FALSE

(***************************************************************************)
(* One AuthService (as LinearAuth constructs it, or constructed with a     *)
(* configuration) and the calls made on it, one at a time.                 *)
(***************************************************************************)

PatToken == <<"lin_oauth_", "hex64-1">>

OtherPatToken == <<"lin_oauth_", "hex64-2">>

BearerPatToken == <<"Bearer ", "lin_oauth_", "hex64-1">>

MalformedToken == <<"test-token">>

OAuthConfig ==
    [type |-> "oauth", clientId |-> <<"client-id">>, clientSecret |-> <<"client-secret">>,
     redirectUri |-> <<"https://localhost/callback">>]

\* the configurations AuthService is constructed with: LinearAuth's
\* { type: 'pat', token: '' } and an OAuth application
ConstructorConfigs == {[type |-> "pat", token |-> <<>>], OAuthConfig}

\* PAT configurations without a token
TokenlessPatConfigs == {[type |-> "pat"], [type |-> "pat", token |-> <<>>]}

\* the configurations passed to initialize
InitializeConfigs ==
    TokenlessPatConfigs
        \cup {[type |-> "pat", token |-> t] : t \in {PatToken, BearerPatToken, MalformedToken}}
        \cup {[type |-> "pat", accessToken |-> OtherPatToken], OAuthConfig}

\* what POST /oauth/token may answer
TokenResponses ==
    {[ok |-> TRUE,
      data |-> [access_token |-> <<"access-1">>, refresh_token |-> <<"refresh-1">>,
                expires_in |-> 3600]],
     [ok |-> FALSE, message |-> "HTTP error! status: 400"]}

\* POST requests one AuthService sends in a run
MaxPosts == 2

NoAuthCall == [pc |-> "none"]

\* a call that has ended: resolved / rejected (async), returned / threw, with
\* the message of the error or the value, if any
Ended(method, outcome, message, value) ==
    [pc |-> "ended", method |-> method, outcome |-> outcome, message |-> message,
     value |-> value]

\* a call waiting for the answer to its POST
Waiting(method, post) == [pc |-> "waiting", method |-> method, post |-> post]

\* new AuthService(config, logger, configService)
InitAuth ==
    /\ now = 0
    /\ authConfig \in ConstructorConfigs
    /\ patAccessToken = <<>>
    /\ tokenData = StorePat(authConfig, <<>>, 0)
    /\ oauthTokenData = <<>>
    /\ authCall = NoAuthCall
    /\ posts = 0

\* AuthService.initialize(config): config is <<>> (undefined) or <<object>>
AuthInitialize(config) ==
    /\ authCall.pc # "waiting" /\ posts < MaxPosts
    /\ LET merged == IF config = <<>> THEN authConfig
                     ELSE ObjectAssign(authConfig, BackwardCompatible(config[1]))
           type   == Get(merged, "type")
       IN  /\ authConfig' = merged
           /\ tokenData' = IF config = <<>> THEN tokenData
                           ELSE StorePat(BackwardCompatible(config[1]), tokenData, now)
           /\ IF type = <<"pat">>
              THEN LET pat == PATService_initialize(merged, patAccessToken)
                   IN  /\ patAccessToken' = pat.accessToken
                       /\ authCall' = IF pat.threw
                                      THEN Ended("initialize", "rejected", pat.message, <<>>)
                                      ELSE Ended("initialize", "resolved", "", <<>>)
                       /\ posts' = posts
              ELSE IF type = <<"oauth">>
              THEN /\ patAccessToken' = patAccessToken
                   /\ IF /\ ~TruthyText(TokenManager_getAccessToken(oauthTokenData, now))
                         /\ TruthyText(TokenManager_getRefreshToken(oauthTokenData))
                      THEN LET refresh == OAuthService_refreshToken(merged, oauthTokenData)
                           IN  IF refresh.threw
                               THEN /\ authCall' = Ended("initialize", "rejected",
                                                         refresh.message, <<>>)
                                    /\ posts' = posts
                               ELSE /\ authCall' = Waiting("initialize", refresh.post)
                                    /\ posts' = posts + 1
                      ELSE /\ authCall' = Ended("initialize", "resolved", "", <<>>)
                           /\ posts' = posts
              ELSE /\ patAccessToken' = patAccessToken
                   /\ authCall' = Ended("initialize", "rejected", "Unsupported auth type", <<>>)
                   /\ posts' = posts
    /\ UNCHANGED <<now, oauthTokenData, notAuth>>

\* AuthService.getAccessToken, the PAT case
AuthGetAccessToken ==
    /\ authCall.pc # "waiting"
    /\ Get(authConfig, "type") = <<"pat">>
    /\ LET got == PATService_getAccessToken(patAccessToken)
       IN  authCall' = IF got.threw THEN Ended("getAccessToken", "rejected", got.message, <<>>)
                       ELSE Ended("getAccessToken", "resolved", "", <<got.value>>)
    /\ UNCHANGED <<now, authConfig, patAccessToken, tokenData, oauthTokenData, posts, notAuth>>

\* AuthService.refreshToken
AuthRefreshToken ==
    /\ authCall.pc # "waiting" /\ posts < MaxPosts
    /\ IF Get(authConfig, "type") # <<"oauth">>
       THEN /\ authCall' = Ended("refreshToken", "rejected",
                                 "Token refresh is only supported for OAuth authentication", <<>>)
            /\ posts' = posts
       ELSE LET refresh == OAuthService_refreshToken(authConfig, oauthTokenData)
            IN  IF refresh.threw
                THEN /\ authCall' = Ended("refreshToken", "rejected", refresh.message, <<>>)
                     /\ posts' = posts
                ELSE /\ authCall' = Waiting("refreshToken", refresh.post)
                     /\ posts' = posts + 1
    /\ UNCHANGED <<now, authConfig, patAccessToken, tokenData, oauthTokenData, notAuth>>

\* AuthService.getAuthorizationUrl(state)
AuthGetAuthorizationUrl(state) ==
    /\ authCall.pc # "waiting"
    /\ IF Get(authConfig, "type") # <<"oauth">>
       THEN authCall' = Ended("getAuthorizationUrl", "threw",
                              "Authorization URL is only available for OAuth authentication", <<>>)
       ELSE LET url == OAuthService_getAuthorizationUrl(authConfig, state)
            IN  authCall' = IF url.threw
                            THEN Ended("getAuthorizationUrl", "threw", url.message, <<>>)
                            ELSE Ended("getAuthorizationUrl", "returned", "", <<url.value>>)
    /\ UNCHANGED <<now, authConfig, patAccessToken, tokenData, oauthTokenData, posts, notAuth>>

\* AuthService.handleCallback(code, state)
AuthHandleCallback(code) ==
    /\ authCall.pc # "waiting" /\ posts < MaxPosts
    /\ IF Get(authConfig, "type") # <<"oauth">>
       THEN /\ authCall' = Ended("handleCallback", "rejected",
                                 "Callback handling is only available for OAuth authentication", <<>>)
            /\ posts' = posts
       ELSE LET callback == OAuthService_handleCallback(authConfig, code)
            IN  IF callback.threw
                THEN /\ authCall' = Ended("handleCallback", "rejected", callback.message, <<>>)
                     /\ posts' = posts
                ELSE /\ authCall' = Waiting("handleCallback", callback.post)
                     /\ posts' = posts + 1
    /\ UNCHANGED <<now, authConfig, patAccessToken, tokenData, oauthTokenData, notAuth>>

\* the answer to the pending POST /oauth/token arrives
AuthPostSettles(response) ==
    /\ authCall.pc = "waiting"
    /\ IF response.ok
       THEN /\ oauthTokenData' = StoreTokenResponse(response.data, now)
            /\ authCall' = Ended(authCall.method, "resolved", "", <<>>)
       ELSE /\ oauthTokenData' = oauthTokenData
            /\ authCall' = Ended(authCall.method, "rejected", response.message, <<>>)
    /\ UNCHANGED <<now, authConfig, patAccessToken, tokenData, posts, notAuth>>

NextAuth ==
    \/ \E config \in {<<>>} \cup {<<c>> : c \in InitializeConfigs} : AuthInitialize(config)
    \/ AuthGetAccessToken
    \/ AuthRefreshToken
    \/ \E state \in {<<>>, <<"state-1">>} : AuthGetAuthorizationUrl(state)
    \/ \E code \in {"test-code"} : AuthHandleCallback(code)
    \/ \E response \in TokenResponses : AuthPostSettles(response)

(***************************************************************************)
(* One TokenManager: setTokenData and clearTokens as time passes.          *)
(***************************************************************************)

\* the clock advances in steps of five minutes
ClockStepMs == BufferTimeMs

\* steps of the clock in one run
MaxTicks == 14

\* TokenData values: the access token a string (possibly empty), the refresh
\* token and the expiry optional
TokenDatas ==
    [accessToken  : {<<>>, <<"access-1">>},
     refreshToken : {<<>>, <<<<>>>>, <<<<"refresh-1">>>>},
     expiresAt    : {<<>>, <<0>>, <<2 * ClockStepMs>>, <<6 * ClockStepMs>>}]

\* new TokenManager(logger)
InitToken ==
    /\ now = 0
    /\ tokenData = <<>>
    /\ authConfig = [type |-> "pat", token |-> <<>>]
    /\ patAccessToken = <<>>
    /\ oauthTokenData = <<>>
    /\ authCall = NoAuthCall
    /\ posts = 0

\* TokenManager.setTokenData(data)
SetTokenData(data) ==
    /\ tokenData' = TokenManager_setTokenData(data, now)
    /\ UNCHANGED <<now, authConfig, patAccessToken, oauthTokenData, authCall, posts, notAuth>>

\* TokenManager.clearTokens()
ClearTokens ==
    /\ tokenData' = <<>>
    /\ UNCHANGED <<now, authConfig, patAccessToken, oauthTokenData, authCall, posts, notAuth>>

\* Date.now() grows
ClockTick ==
    /\ now < MaxTicks * ClockStepMs
    /\ now' = now + ClockStepMs
    /\ UNCHANGED <<tokenData, authConfig, patAccessToken, oauthTokenData, authCall, posts,
                   notAuth>>

NextToken ==
    \/ \E data \in TokenDatas : SetTokenData(data)
    \/ ClearTokens
    \/ ClockTick

(***************************************************************************)
(* One OAuthService whose stored access token is expired and whose refresh *)
(* token is present, and getAccessToken calls made on it while earlier     *)
(* ones are pending.  A call runs from its start to its await of the POST  *)
(* and from the answer to its end without interruption.                    *)
(***************************************************************************)

\* getAccessToken calls of one run
NumOAuthCalls == 3

OAuthCallIds == 1..NumOAuthCalls

\* the token data stored before the first call: expired, with a refresh token
ExpiredTokenData ==
    TokenManager_setTokenData(
        [accessToken |-> <<"access-0">>, refreshToken |-> <<<<"refresh-0">>>>,
         expiresAt |-> <<DefaultExpiryMs>>],
        0)

\* the tokens POST /oauth/token grants to the request of a call
GrantedTokens ==
    <<[access_token |-> <<"access-1">>, refresh_token |-> <<"refresh-1">>],
      [access_token |-> <<"access-2">>, refresh_token |-> <<"refresh-2">>],
      [access_token |-> <<"access-3">>, refresh_token |-> <<"refresh-3">>],
      [access_token |-> <<"access-4">>, refresh_token |-> <<"refresh-4">>]>>

\* lifetimes in seconds the server may grant: an hour, or less than the
\* five-minute buffer
ExpiresIn == {3600, 60}

\* what POST /oauth/token may answer to the request of call c
OAuthAnswers(c) ==
    {[ok |-> TRUE,
      data |-> [access_token  |-> GrantedTokens[c].access_token,
                refresh_token |-> GrantedTokens[c].refresh_token,
                expires_in    |-> seconds]] : seconds \in ExpiresIn}
        \cup {[ok |-> FALSE, message |-> "HTTP error! status: 400"]}

\* new OAuthService(config, ...), the token data of an earlier authorization
\* stored, the access token expired at time `now`
InitOAuth ==
    /\ now = DefaultExpiryMs
    /\ authConfig = OAuthConfig
    /\ patAccessToken = <<>>
    /\ tokenData = <<>>
    /\ oauthTokenData = ExpiredTokenData
    /\ authCall = NoAuthCall
    /\ posts = 0
    /\ oauthCalls = [c \in OAuthCallIds |-> [pc |-> "idle"]]
    /\ exchanged = {}

\* OAuthService.getAccessToken up to its return, throw or await
OAuthGetAccessToken(c) ==
    /\ oauthCalls[c].pc = "idle"
    /\ LET token == TokenManager_getAccessToken(oauthTokenData, now)
       IN  IF TruthyText(token)
           THEN /\ oauthCalls' = [oauthCalls EXCEPT ![c] =
                                     Ended("getAccessToken", "resolved", "", token)]
                /\ posts' = posts
           ELSE IF TruthyText(TokenManager_getRefreshToken(oauthTokenData))
           THEN LET refresh == OAuthService_refreshToken(authConfig, oauthTokenData)
                IN  IF refresh.threw
                    THEN /\ oauthCalls' = [oauthCalls EXCEPT ![c] =
                                              Ended("getAccessToken", "rejected",
                                                    refresh.message, <<>>)]
                         /\ posts' = posts
                    ELSE /\ oauthCalls' = [oauthCalls EXCEPT ![c] =
                                              Waiting("getAccessToken", refresh.post)]
                         /\ posts' = posts + 1
           ELSE /\ oauthCalls' = [oauthCalls EXCEPT ![c] =
                                     Ended("getAccessToken", "rejected",
                                           "No access token available", <<>>)]
                /\ posts' = posts
    /\ UNCHANGED <<now, authConfig, patAccessToken, tokenData, oauthTokenData, authCall,
                   exchanged, notOAuth>>

\* the answer to the POST of call c arrives: refreshToken stores the tokens
\* and getAccessToken reads the access token again
OAuthPostSettles(c, answer) ==
    /\ oauthCalls[c].pc = "waiting"
    /\ IF answer.ok
       THEN LET stored   == StoreTokenResponse(answer.data, now)
                newToken == TokenManager_getAccessToken(stored, now)
            IN  /\ oauthTokenData' = stored
                /\ exchanged' = exchanged \cup {oauthCalls[c].post.refresh_token}
                /\ oauthCalls' = [oauthCalls EXCEPT ![c] =
                                     IF ~TruthyText(newToken)
                                     THEN Ended("getAccessToken", "rejected",
                                                "Failed to refresh access token", <<>>)
                                     ELSE Ended("getAccessToken", "resolved", "", newToken)]
       ELSE /\ oauthTokenData' = oauthTokenData
            /\ exchanged' = exchanged
            /\ oauthCalls' = [oauthCalls EXCEPT ![c] =
                                 Ended("getAccessToken", "rejected", answer.message, <<>>)]
    /\ UNCHANGED <<now, authConfig, patAccessToken, tokenData, authCall, posts, notOAuth>>

NextOAuth ==
    \/ \E c \in OAuthCallIds : OAuthGetAccessToken(c)
    \/ \E c \in OAuthCallIds : \E answer \in OAuthAnswers(c) : OAuthPostSettles(c, answer)

(***************************************************************************)
(* utils/config.service: ConfigService.  process.env maps the names that   *)
(* are set to strings; a string is the sequence of its characters (a word  *)
(* without digits is one element).  Numbers are Number(n) or NaN.          *)
(***************************************************************************)

\* process.env.NAME || fallback
OrDefault(opt, fallback) == IF TruthyText(opt) THEN opt[1] ELSE fallback

\* parseInt(text, 10) for a string of letters, digits and "-"
parseInt(text) == parseFloat(<<text>>)

\* a < b for numbers: false when a is NaN or undefined
LessThan(a, b) == "value" \in DOMAIN a /\ a.value < b

\* Object.values(LogLevel)
LogLevels == {<<"error">>, <<"warn">>, <<"info">>, <<"debug">>}

\* ConfigService.loadAuthConfig (LINEAR_SCOPES is not set)
loadAuthConfig(environment) ==
    [clientId     |-> Get(environment, "LINEAR_CLIENT_ID"),
     clientSecret |-> Get(environment, "LINEAR_CLIENT_SECRET"),
     redirectUri  |-> Get(environment, "LINEAR_REDIRECT_URI"),
     accessToken  |-> Get(environment, "LINEAR_ACCESS_TOKEN"),
     scopes       |-> <<>>]

\* ConfigService.loadLoggingConfig
loadLoggingConfig(environment) ==
    [level         |-> OrDefault(Get(environment, "LOG_LEVEL"), <<"info">>),
     enableConsole |-> Get(environment, "LOG_ENABLE_CONSOLE") # <<<<"false">>>>,
     formatOutput  |-> Get(environment, "LOG_FORMAT_OUTPUT") # <<<<"false">>>>]

\* ConfigService.loadHttpConfig
loadHttpConfig(environment) ==
    LET maxRequests == Get(environment, "HTTP_RATE_LIMIT_MAX_REQUESTS")
        windowMs    == Get(environment, "HTTP_RATE_LIMIT_WINDOW_MS")
    IN  [baseUrl    |-> OrDefault(Get(environment, "LINEAR_API_URL"),
                                  <<"https://api.linear.app">>),
         timeout    |-> parseInt(OrDefault(Get(environment, "HTTP_TIMEOUT"),
                                           <<"3", "0", "0", "0", "0">>)),
         maxRetries |-> parseInt(OrDefault(Get(environment, "HTTP_MAX_RETRIES"), <<"3">>)),
         rateLimit  |-> IF TruthyText(maxRequests) /\ TruthyText(windowMs)
                        THEN <<[maxRequests |-> parseInt(maxRequests[1]),
                                windowMs    |-> parseInt(windowMs[1])]>>
                        ELSE <<>>]

\* ConfigService.validateConfig, all of it: the message of the ConfigError
\* it throws, <<>> when it returns
ConfigService_validateConfig(config) ==
    IF /\ ~TruthyText(config.auth.accessToken)
       /\ ~(TruthyText(config.auth.clientId) /\ TruthyText(config.auth.clientSecret))
    THEN <<"Either LINEAR_ACCESS_TOKEN or both LINEAR_CLIENT_ID and LINEAR_CLIENT_SECRET must be provided">>
    ELSE IF /\ TruthyText(config.auth.clientId) /\ TruthyText(config.auth.clientSecret)
            /\ ~TruthyText(config.auth.redirectUri)
    THEN <<"LINEAR_REDIRECT_URI must be provided when using OAuth authentication">>
    ELSE IF LessThan(config.http.timeout, MinTimeoutMs)
    THEN <<"HTTP_TIMEOUT must be at least 1000ms">>
    ELSE IF LessThan(config.http.maxRetries, 0)
    THEN <<"HTTP_MAX_RETRIES must be non-negative">>
    ELSE IF config.http.rateLimit # <<>>
            /\ LessThan(config.http.rateLimit[1].maxRequests, 1)
    THEN <<"HTTP_RATE_LIMIT_MAX_REQUESTS must be positive">>
    ELSE IF config.http.rateLimit # <<>>
            /\ LessThan(config.http.rateLimit[1].windowMs, MinWindowMs)
    THEN <<"HTTP_RATE_LIMIT_WINDOW_MS must be at least 1000ms">>
    ELSE IF config.logging.level \notin LogLevels
    THEN <<"LOG_LEVEL must be one of: error, warn, info, debug">>
    ELSE <<>>

\* ConfigService.loadConfig: the configuration and what validateConfig threw
loadConfig(environment) ==
    LET config == [auth    |-> loadAuthConfig(environment),
                   logging |-> loadLoggingConfig(environment),
                   http    |-> loadHttpConfig(environment)]
    IN  [config |-> config, threw |-> ConfigService_validateConfig(config)]

\* { ...base, ...override }, override undefined (<<>>) or <<object>>
SpreadOver(base, override) ==
    IF override = <<>> THEN base ELSE ObjectAssign(base, override[1])

\* ConfigService.fromConfig: the merged configuration and what the
\* constructor or validateConfig threw
fromConfig(environment, override) ==
    LET loaded == loadConfig(environment)
        merged == [auth    |-> SpreadOver(loaded.config.auth, Get(override, "auth")),
                   logging |-> SpreadOver(loaded.config.logging, Get(override, "logging")),
                   http    |-> SpreadOver(loaded.config.http, Get(override, "http"))]
    IN  IF loaded.threw # <<>> THEN loaded
        ELSE [config |-> merged, threw |-> ConfigService_validateConfig(merged)]

\* the values of the environment variables
EnvValues ==
    [LINEAR_ACCESS_TOKEN |-> {<<"lin_api_key">>},
     LINEAR_CLIENT_ID |-> {<<"client-id">>},
     LINEAR_CLIENT_SECRET |-> {<<"client-secret">>},
     LINEAR_REDIRECT_URI |-> {<<"https://localhost/callback">>},
     HTTP_TIMEOUT |-> {<<"9", "9", "9">>, <<"1", "0", "0", "0">>, <<"abc">>},
     HTTP_MAX_RETRIES |-> {<<"-", "1">>, <<"0">>},
     HTTP_RATE_LIMIT_MAX_REQUESTS |-> {<<"0">>, <<"5">>},
     HTTP_RATE_LIMIT_WINDOW_MS |-> {<<"9", "9", "9">>, <<"1", "0", "0", "0">>},
     LOG_LEVEL |-> {<<"verbose">>}]

\* unset, or one of the values
Optional(values) == {<<>>} \cup {<<v>> : v \in values}

\* the object with the keys whose value is set
Defined(settings) ==
    [n \in {k \in DOMAIN settings : settings[k] # <<>>} |-> settings[n][1]]

\* the environments of a process: each variable unset or set to one of its values
Environments ==
    {Defined([LINEAR_ACCESS_TOKEN |-> token, LINEAR_CLIENT_ID |-> id,
              LINEAR_CLIENT_SECRET |-> secret, LINEAR_REDIRECT_URI |-> uri,
              HTTP_TIMEOUT |-> timeout, HTTP_MAX_RETRIES |-> retries,
              HTTP_RATE_LIMIT_MAX_REQUESTS |-> maxRequests,
              HTTP_RATE_LIMIT_WINDOW_MS |-> windowMs, LOG_LEVEL |-> level]) :
        token \in Optional(EnvValues.LINEAR_ACCESS_TOKEN),
        id \in Optional(EnvValues.LINEAR_CLIENT_ID),
        secret \in Optional(EnvValues.LINEAR_CLIENT_SECRET),
        uri \in Optional(EnvValues.LINEAR_REDIRECT_URI),
        timeout \in Optional(EnvValues.HTTP_TIMEOUT),
        retries \in Optional(EnvValues.HTTP_MAX_RETRIES),
        maxRequests \in Optional(EnvValues.HTTP_RATE_LIMIT_MAX_REQUESTS),
        windowMs \in Optional(EnvValues.HTTP_RATE_LIMIT_WINDOW_MS),
        level \in Optional(EnvValues.LOG_LEVEL)}

\* the overrides passed to fromConfig
Overrides ==
    {<<>>,
     [http |-> [timeout |-> Number(500)]],
     [http |-> [timeout |-> Number(5000), maxRetries |-> Number(2)]],
     [http |-> [maxRetries |-> Number(0 - 1)]],
     [http |-> [rateLimit |-> <<[maxRequests |-> Number(10), windowMs |-> Number(100)]>>]],
     [http |-> [rateLimit |-> <<[maxRequests |-> Number(10), windowMs |-> Number(60000)]>>]],
     [auth |-> [accessToken |-> <<>>]],
     [auth |-> [accessToken |-> <<<<"lin_api_other">>>>]],
     [auth |-> [clientId |-> <<<<"client-id">>>>, clientSecret |-> <<<<"client-secret">>>>]],
     [logging |-> [level |-> <<"trace">>]]}

NoConfigCall == [pc |-> "none"]

\* a process whose environment is set, no ConfigService constructed
InitConfig ==
    /\ env \in Environments
    /\ service = <<>>
    /\ configCall = NoConfigCall

\* new ConfigService()
NewConfigService ==
    /\ LET loaded == loadConfig(env)
       IN  IF loaded.threw # <<>>
           THEN /\ configCall' = [pc |-> "threw", method |-> "constructor",
                                  name |-> "ConfigError", message |-> loaded.threw[1]]
                /\ service' = service
           ELSE /\ configCall' = [pc |-> "returned", method |-> "constructor"]
                /\ service' = <<loaded.config>>
    /\ UNCHANGED <<env, notConfig>>

\* ConfigService.fromConfig(config)
FromConfig(override) ==
    /\ LET made == fromConfig(env, override)
       IN  IF made.threw # <<>>
           THEN /\ configCall' = [pc |-> "threw", method |-> "fromConfig",
                                  name |-> "ConfigError", message |-> made.threw[1]]
                /\ service' = service
           ELSE /\ configCall' = [pc |-> "returned", method |-> "fromConfig"]
                /\ service' = <<made.config>>
    /\ UNCHANGED <<env, notConfig>>

NextConfig ==
    \/ NewConfigService
    \/ \E override \in Overrides : FromConfig(override)

(***************************************************************************)
(* features/issues: IssueService.bulkCreateIssues and bulkUpdateIssues.    *)
(* The GraphQLClient the service is constructed with answers each execute  *)
(* call on its own; the workspace holds the issues created and updated.    *)
(***************************************************************************)

\* input items of one bulk call
MaxBulk == 2

\* IssueCreateInput values
CreateInputs ==
    {[title |-> t, teamId |-> "team-1"] : t \in {"Bulk Issue 1", "Bulk Issue 2"}}

\* { id, input } values: two issues of the workspace and an unknown one
UpdateInputs == {[id |-> i, input |-> [title |-> "Updated"]] : i \in {1, 2, 9}}

SeqsUpTo(S, n) == UNION {[1..k -> S] : k \in 0..n}

\* what client.execute may do with one operation: answer with success true
\* and the issue, answer with success false, answer {} (no data), or reject
ExecuteOutcomes == {"success", "refused", "empty", "error"}

\* the issues the workspace holds before the bulk call
ExistingIssues == {[id |-> 1, title |-> "Existing 1"], [id |-> 2, title |-> "Existing 2"]}

\* the operation a per-item call passes to client.execute
ItemOperation(method, item) ==
    LET operation == IF method = "bulkCreateIssues"
                     THEN IssueOperations_createIssue(item)
                     ELSE IssueOperations_updateIssue(item.id, item.input)
    IN  [operationName |-> operation.operationName, variables |-> operation.variables]

\* inputs.map(input => this.createIssue(input)): every per-item call runs to
\* its await of client.execute
StartCalls(items) == [i \in 1..Len(items) |-> [pc |-> "pending"]]

\* the workspace after a successful operation, and the issue it answers with
Applied(method, item, issues) ==
    IF method = "bulkCreateIssues"
    THEN LET issue == [id |-> Cardinality(issues) + 1, title |-> item.title]
         IN  [issue |-> issue, store |-> issues \cup {issue}]
    ELSE LET issue == [id |-> item.id, title |-> item.input.title]
         IN  [issue |-> issue,
              store |-> {s \in issues : s.id # item.id} \cup {issue}]

\* createIssue / updateIssue after the await: the issue, or the error thrown
ItemSettled(method, item, outcome, issue) ==
    IF outcome = "success" THEN [pc |-> "fulfilled", value |-> issue]
    ELSE IF outcome = "error" THEN [pc |-> "rejected", message |-> "GraphQL operation failed"]
    ELSE [pc |-> "rejected",
          message |-> IF method = "bulkCreateIssues" THEN "Failed to create issue"
                      ELSE "Failed to update issue"]

PromiseAll_AllSettled(current, promises, settled) ==
    IF current.pc # "awaiting" THEN current
    ELSE IF \A i \in DOMAIN promises : promises[i].pc \in {"fulfilled", "rejected"}
    THEN [current EXCEPT !.pc = "resolved",
                         !.result = [i \in DOMAIN promises |->
                                        IF promises[i].pc = "fulfilled" THEN promises[i].value
                                        ELSE [id |-> 0, title |-> ""]]]
    ELSE current

\* await Promise.all(calls) with the catch of the bulk method: rejects with
\* the first rejection, resolves with all values in order once all fulfilled
PromiseAll(current, promises, settled) ==
    IF current.pc # "awaiting" THEN current
    ELSE IF promises[settled].pc = "rejected"
    THEN [current EXCEPT !.pc = "rejected", !.message = promises[settled].message]
    ELSE IF \A i \in DOMAIN promises : promises[i].pc = "fulfilled"
    THEN [current EXCEPT !.pc = "resolved",
                         !.result = [i \in DOMAIN promises |-> promises[i].value]]
    ELSE current

\* new IssueService(client, logger) on a workspace with two issues
InitBulk ==
    /\ bulk = [pc |-> "idle"]
    /\ executed = <<>>
    /\ store = ExistingIssues

\* the bulk call after its synchronous part: awaiting Promise.all, which has
\* resolved already for an empty array
Started(method, items) ==
    [pc |-> IF Len(items) = 0 THEN "resolved" ELSE "awaiting",
     method |-> method, items |-> items, calls |-> StartCalls(items),
     result |-> <<>>, message |-> ""]

\* IssueService.bulkCreateIssues(inputs)
BulkCreateIssues(inputs) ==
    /\ bulk.pc = "idle"
    /\ executed' = [i \in 1..Len(inputs) |-> ItemOperation("bulkCreateIssues", inputs[i])]
    /\ bulk' = Started("bulkCreateIssues", inputs)
    /\ UNCHANGED <<store, notBulk>>

\* IssueService.bulkUpdateIssues(updates)
BulkUpdateIssues(updates) ==
    /\ bulk.pc = "idle"
    /\ executed' = [i \in 1..Len(updates) |-> ItemOperation("bulkUpdateIssues", updates[i])]
    /\ bulk' = Started("bulkUpdateIssues", updates)
    /\ UNCHANGED <<store, notBulk>>

\* the client settles the execute call of item i; its createIssue or
\* updateIssue continues, and with it Promise.all
ItemSettles(i, outcome) ==
    /\ bulk.pc \in {"awaiting", "rejected"}
    /\ i \in DOMAIN bulk.calls
    /\ bulk.calls[i].pc = "pending"
    /\ outcome = "success" /\ bulk.method = "bulkUpdateIssues" =>
           \E s \in store : s.id = bulk.items[i].id
    /\ LET applied == Applied(bulk.method, bulk.items[i], store)
           promises == [bulk.calls EXCEPT
                          ![i] = ItemSettled(bulk.method, bulk.items[i], outcome,
                                             applied.issue)]
       IN  /\ store' = IF outcome = "success" THEN applied.store ELSE store
           /\ bulk' = PromiseAll([bulk EXCEPT !.calls = promises], promises, i)
    /\ UNCHANGED <<executed, notBulk>>

NextBulk ==
    \/ \E inputs \in SeqsUpTo(CreateInputs, MaxBulk) : BulkCreateIssues(inputs)
    \/ \E updates \in SeqsUpTo(UpdateInputs, MaxBulk) : BulkUpdateIssues(updates)
    \/ \E i \in 1..MaxBulk : \E outcome \in ExecuteOutcomes : ItemSettles(i, outcome)

(***************************************************************************)
(* Specifications                                                          *)
(***************************************************************************)

\* the tool table of a process started without TOOL_PREFIX, nothing looked up
ToolsAtRest ==
    /\ TOOL_PREFIX = <<>>
    /\ toolSchemas = BuildToolSchemas(<<>>)
    /\ lookup = [outcome |-> "none"]

\* no handler call in progress
HandlersAtRest ==
    /\ clientAvailable = TRUE
    /\ call = IdleCall

\* a GraphQLClient with the default configuration on which nothing is executed
ClientAtRest ==
    /\ httpConfig = [timeout |-> 30000, maxRetries |-> DefaultMaxRetries, rateLimit |-> <<>>]
    /\ rateLimitWindow = [set |-> FALSE, age |-> 0]
    /\ rateLimitRequests = 0
    /\ gatePasses = 0
    /\ launched = 1
    /\ faults = ThrownValues
    /\ calls = [c \in CallIds |-> NewCall]

\* no executeBatch call
BatchAtRest == batch = [pc |-> "idle"]

\* no QueryBuilder in use
BuilderAtRest ==
    /\ builder = <<>>
    /\ built = <<>>
    /\ ignored = <<>>
    /\ selected = {}

\* no factory of the catalog called
CatalogAtRest == catalog = NoFactoryCall

\* no LinearGraphQLClient method called
LinearAtRest == InitLinear

\* the AuthService LinearAuth constructs, nothing called on it
AuthAtRest ==
    /\ now = 0
    /\ authConfig = [type |-> "pat", token |-> <<>>]
    /\ patAccessToken = <<>>
    /\ tokenData = <<>>
    /\ oauthTokenData = <<>>
    /\ authCall = NoAuthCall
    /\ posts = 0

\* the tool table, the handlers, the execution client and the builder unused
CoreAtRest ==
    ToolsAtRest /\ HandlersAtRest /\ ClientAtRest /\ BatchAtRest /\ BuilderAtRest

\* no bulk call made on IssueService
BulkAtRest ==
    /\ bulk = [pc |-> "idle"]
    /\ executed = <<>>
    /\ store = {}

\* no ConfigService constructed, nothing set in the environment
ConfigAtRest ==
    /\ env = <<>>
    /\ service = <<>>
    /\ configCall = [pc |-> "none"]

\* no concurrent OAuthService.getAccessToken calls
OAuthAtRest ==
    /\ oauthCalls = <<>>
    /\ exchanged = {}

LastAtRest == BulkAtRest /\ ConfigAtRest /\ OAuthAtRest

\* the catalog and the services unused
LaterAtRest == CatalogAtRest /\ LinearAtRest /\ AuthAtRest /\ LastAtRest

\* one tool-handler call, from its invocation until it settles
Init ==
    InitHandlers /\ ToolsAtRest /\ ClientAtRest /\ BatchAtRest /\ BuilderAtRest
        /\ LaterAtRest

Next == NextHandlers

Spec == Init /\ [][Next]_vars

\* the tool table under every TOOL_PREFIX and lookups through the factory
ToolsInit == InitTools /\ HandlersAtRest /\ ClientAtRest /\ BatchAtRest /\ BuilderAtRest
        /\ LaterAtRest

ToolsSpec == ToolsInit /\ [][NextTools]_vars

\* execute calls on one GraphQLClient.  Timers fire, continuations run and
\* requests settle (the HTTP timeout bounds every request).
RetryInit ==
    InitOneCaller /\ ToolsAtRest /\ HandlersAtRest /\ BatchAtRest /\ BuilderAtRest
        /\ LaterAtRest

ClientInit ==
    InitConcurrentCallers /\ ToolsAtRest /\ HandlersAtRest /\ BatchAtRest /\ BuilderAtRest
        /\ LaterAtRest

ClientFairness ==
    /\ WF_vars(Tick)
    /\ \A c \in CallIds :
          /\ WF_vars(RateLimitTimerFires(c))
          /\ WF_vars(StartAttempt(c))
          /\ WF_vars(BackoffTimerFires(c))
          /\ WF_vars(\/ \E errors \in ResponseErrors : AttemptSucceeds(c, errors)
                     \/ \E error \in faults : AttemptFails(c, error))

\* executeBatch calls on one GraphQLClient, one batch at a time
BatchInit ==
    InitBatchClient /\ ToolsAtRest /\ HandlersAtRest /\ BatchAtRest /\ BuilderAtRest
        /\ LaterAtRest

BatchSpec == BatchInit /\ [][NextBatch]_vars /\ ClientFairness

\* one QueryBuilder, any sequence of its methods
BuilderInit ==
    BuilderAtRest /\ ToolsAtRest /\ HandlersAtRest /\ ClientAtRest /\ BatchAtRest
        /\ LaterAtRest

BuilderSpec == BuilderInit /\ [][NextBuilder]_vars

\* the operation catalog: any sequence of factory calls
CatalogInit == CatalogAtRest /\ CoreAtRest /\ LinearAtRest /\ AuthAtRest /\ LastAtRest

CatalogSpec == CatalogInit /\ [][NextCatalog]_vars

\* one LinearGraphQLClient call, from the call to the last response
LinearInit == InitLinear /\ CoreAtRest /\ CatalogAtRest /\ AuthAtRest /\ LastAtRest

LinearSpec == LinearInit /\ [][NextLinear]_vars

\* one AuthService and the calls made on it
AuthInit == InitAuth /\ CoreAtRest /\ CatalogAtRest /\ LinearAtRest /\ LastAtRest

AuthSpec == AuthInit /\ [][NextAuth]_vars

\* one bulk call on IssueService, from the call until every item has settled
BulkInit ==
    InitBulk /\ CoreAtRest /\ CatalogAtRest /\ LinearAtRest /\ AuthAtRest
        /\ ConfigAtRest /\ OAuthAtRest

BulkSpec == BulkInit /\ [][NextBulk]_vars

\* a process and the ConfigService instances it constructs
ConfigInit ==
    InitConfig /\ CoreAtRest /\ CatalogAtRest /\ LinearAtRest /\ AuthAtRest
        /\ BulkAtRest /\ OAuthAtRest

ConfigSpec == ConfigInit /\ [][NextConfig]_vars

\* concurrent getAccessToken calls on one OAuthService
OAuthInit ==
    InitOAuth /\ CoreAtRest /\ CatalogAtRest /\ LinearAtRest /\ BulkAtRest /\ ConfigAtRest

OAuthSpec == OAuthInit /\ [][NextOAuth]_vars

\* one TokenManager
TokenInit == InitToken /\ CoreAtRest /\ CatalogAtRest /\ LinearAtRest /\ LastAtRest

TokenSpec == TokenInit /\ [][NextToken]_vars

\* the retry policy: one caller
RetrySpec == RetryInit /\ [][NextClient]_vars /\ ClientFairness

\* the rate limiter: concurrent callers
ClientSpec == ClientInit /\ [][NextClient]_vars /\ ClientFairness

(***************************************************************************)
(* Claims about the handlers                                               *)
(***************************************************************************)

RequiredKeys(method) ==
    {HandlerMethods[method].required[j] : j \in 1..Len(HandlerMethods[method].required)}

IsErrorResponse(result) ==
    /\ result # <<>>
    /\ "isError" \in DOMAIN result[1]
    /\ result[1].isError = TRUE

\* C1: whatever fails inside a handler method (authentication, a missing
\* argument, local validation, a rejected network call), the call resolves
\* to a tool response with isError = true whose text names the failed
\* operation; this holds for the project handlers as for the comment handlers.
C1_FailureBecomesErrorResponse ==
    call.pc = "settled" /\ call.raised # <<>> =>
        /\ call.outcome = "resolved"
        /\ IsErrorResponse(call.result)
        /\ call.result[1].content[1].text =
              "Failed to " \o HandlerMethods[call.method].operation \o ": "
                  \o call.raised[1].message

\* C2: a request is sent only after the authentication check passed and every
\* required key is present; a missing required key ends the call with an
\* isError response naming the first missing key and no request sent; without
\* an authenticated client the call ends with an error and no request sent.
C2_ChecksPrecedeNetwork ==
    /\ call.pc # "idle" /\ call.netCalls > 0 =>
          clientAvailable /\ RequiredKeys(call.method) \subseteq DOMAIN call.args
    /\ call.pc = "settled" /\ clientAvailable
          /\ ~(RequiredKeys(call.method) \subseteq DOMAIN call.args) =>
          /\ call.netCalls = 0
          /\ IsErrorResponse(call.result)
          /\ \E j \in 1..Len(HandlerMethods[call.method].required) :
                /\ HandlerMethods[call.method].required[j] \notin DOMAIN call.args
                /\ \A i \in 1..(j - 1) :
                      HandlerMethods[call.method].required[i] \in DOMAIN call.args
                /\ call.result[1].content[1].text =
                      "Failed to " \o HandlerMethods[call.method].operation
                          \o ": Missing required parameter: "
                          \o HandlerMethods[call.method].required[j]
    /\ call.pc = "settled" /\ ~clientAvailable =>
          call.netCalls = 0 /\ IsErrorResponse(call.result)

(***************************************************************************)
(* Claims about GraphQLClient                                              *)
(***************************************************************************)

\* C6: for every maxRetries that validateConfig accepts, one execute call
\* makes at most maxRetries request attempts.
C6_AtMostMaxRetriesAttempts ==
    \A c \in CallIds : calls[c].attempts <= httpConfig.maxRetries

\* C7: an attempt is followed by a backoff and another attempt only if it
\* threw an Error whose message contains "network", "timeout", "500" or
\* "503"; an attempt that throws anything else rejects the call at once: no
\* backoff wait is added, no timer is left and no further attempt is made.
C7_RetryOnlyClassified ==
    [][\A c \in CallIds :
          LET before == calls[c]
              after  == calls'[c]
              classified(e) ==
                  /\ e.isError
                  /\ \/ Includes(e.message, <<"n", "e", "t", "w", "o", "r", "k">>)
                     \/ Includes(e.message, <<"t", "i", "m", "e", "o", "u", "t">>)
                     \/ Includes(e.message, <<"5", "0", "0">>)
                     \/ Includes(e.message, <<"5", "0", "3">>)
          IN  before.pc = "request" =>
                 /\ after.pc = "backoff" =>
                       \E e \in faults : classified(e) /\ AttemptFails(c, e)
                 /\ \A e \in faults :
                       (~classified(e) /\ AttemptFails(c, e)) =>
                          /\ after.pc = "rejected"
                          /\ after.settled[1].message = e.message
                          /\ after.waits = before.waits
                          /\ after.timer = 0
                          /\ after.attempts = before.attempts]_vars

\* C7 witness: a call rejected after one attempt, without any wait, by a
\* thrown string that spells "timeout".
C7_Witness ==
    \E c \in CallIds :
        /\ calls[c].pc = "rejected"
        /\ calls[c].settled[1].code = "UNKNOWN_ERROR"
        /\ calls[c].settled[1].message = ThrownString.message
        /\ calls[c].attempts = 1
        /\ calls[c].waits = <<>>

\* C8: a call that resolves in attempt k resolves with the result of attempt
\* k, the wait before attempt j+1 was min(1000 * 2^(j-1), 10000) ms, and a
\* settled call has waited once between attempts only: nothing after its
\* last attempt.
C8_BackoffSchedule ==
    \A c \in CallIds :
        /\ calls[c].pc = "resolved" =>
              /\ Len(calls[c].settled) = 1
              /\ calls[c].settled[1].response = calls[c].attempts
              /\ calls[c].waits =
                    [j \in 1..(calls[c].attempts - 1) |->
                        IF 1000 * 2 ^ (j - 1) < 10000 THEN 1000 * 2 ^ (j - 1) ELSE 10000]
        /\ calls[c].pc \in {"resolved", "rejected"} =>
              /\ Len(calls[c].waits) = calls[c].attempts - 1
              /\ calls[c].timer = 0

\* C8 witness: a call resolved in its sixth attempt, after the waits 1s, 2s,
\* 4s, 8s and the capped 10s.
C8_Witness ==
    \E c \in CallIds :
        /\ calls[c].pc = "resolved"
        /\ calls[c].attempts = 6
        /\ calls[c].attempts <= httpConfig.maxRetries
        /\ calls[c].waits = <<1000, 2000, 4000, 8000, 10000>>

\* C9: with a rate limit, an execute call that finds maxRequests requests
\* counted in the current window does not fail but waits for the rest of the
\* window; when its wait is over the window start and the counter are reset
\* and the call is let through, and its request is eventually issued.
\* Without a rate limit no call waits and the window and the counter keep
\* their initial values.
C9_LimiterDelaysNeverFails ==
    /\ [][\A c \in CallIds :
             LET before  == calls[c]
                 after   == calls'[c]
                 pending == {"rateWait", "gatePassed", "request", "backoff"}
                 full    ==
                     /\ httpConfig.rateLimit # <<>>
                     /\ rateLimitWindow.set
                     /\ rateLimitWindow.age <= httpConfig.rateLimit[1].windowMs
                     /\ rateLimitRequests >= httpConfig.rateLimit[1].maxRequests
             IN  /\ (before.pc \notin pending /\ after.pc \in pending) =>
                       IF full
                       THEN /\ after.pc = "rateWait"
                            /\ after.timer =
                                  httpConfig.rateLimit[1].windowMs - rateLimitWindow.age
                            /\ after.settled = <<>>
                       ELSE after.pc = "gatePassed"
                 /\ (before.pc = "rateWait" /\ after.pc # "rateWait") =>
                       /\ before.timer = 0
                       /\ after.pc = "gatePassed"
                       /\ rateLimitWindow' = [set |-> TRUE, age |-> 0]
                       /\ rateLimitRequests' = 0]_vars
    /\ [](httpConfig.rateLimit = <<>> =>
             /\ rateLimitWindow = [set |-> FALSE, age |-> 0]
             /\ rateLimitRequests = 0
             /\ \A c \in CallIds : calls[c].pc # "rateWait" /\ calls[c].delay = <<>>)
    /\ \A c \in CallIds : (calls[c].pc = "rateWait") ~> (calls[c].pc = "request")

\* C9 witness: the request of a call that the limiter delayed is issued.
C9_Witness ==
    \E c \in CallIds :
        /\ calls[c].pc = "request"
        /\ calls[c].delay # <<>>
        /\ calls[c].delay[1] > 0

\* C10: the number of execute calls let through the rate-limit gate since
\* the window was last reset never exceeds maxRequests.
C10_GateBoundsWindow ==
    httpConfig.rateLimit # <<>> =>
        gatePasses <= httpConfig.rateLimit[1].maxRequests

\* C11: executeBatch does not reject: when an operation's execution fails it
\* still resolves, with success = false and the failure message in errors.
C11_BatchFailureStillResolves ==
    /\ batch.pc # "rejected"
    /\ batch.pc = "resolved" =>
          \A i \in 1..batch.n :
              calls[i].pc = "rejected" =>
                 /\ ~batch.value[i].success
                 /\ batch.value[i].errors # <<>>

\* C12: a settled executeBatch call on n operations has yielded exactly n
\* results, the i-th being the result of the i-th operation.
C12_OneResultPerOperation ==
    batch.pc \in {"resolved", "rejected"} =>
        /\ batch.pc = "resolved"
        /\ Len(batch.value) = batch.n
        /\ \A i \in 1..batch.n :
              /\ Len(batch.value[i].results) = 1
              /\ batch.value[i].results[1].op = i

\* C13: execute does not resolve with a response that carries structured
\* GraphQL errors.
C13_ErrorResponseRejects ==
    \A c \in CallIds :
        calls[c].pc = "resolved" => calls[c].settled[1].errors = <<>>

(***************************************************************************)
(* Claims about QueryBuilder                                               *)
(***************************************************************************)

\* C14: in a finalized operation every declared variable name is defined
\* exactly once in the header, however often addVariable was called with it.
C14_LastDeclarationWins ==
    (built # <<>> /\ ~built[1].threw) =>
        LET definitions == built[1].document.definitions[1].variableDefinitions
        IN  \A i \in 1..Len(builder[1].variables) :
                Cardinality({k \in 1..(Len(definitions) - 1) :
                                /\ definitions[k] = "$"
                                /\ definitions[k + 1] = builder[1].variables[i].name}) = 1

\* C15: the header of a finalized operation defines every declared variable
\* as "$name: T", where T is the declared type followed by "!" if the
\* variable is required and the type does not already end in "!", and the
\* declared type otherwise; T ends in "!!" only if the declared type does.
C15_RequiredTypeRendering ==
    (built # <<>> /\ ~built[1].threw) =>
        LET variables == builder[1].variables
            T(v) == IF v.required /\ v.type[Len(v.type)] # "!"
                    THEN v.type \o <<"!">> ELSE v.type
            doubled(type) ==
                Len(type) >= 2 /\ type[Len(type)] = "!" /\ type[Len(type) - 1] = "!"
        IN  /\ built[1].document.definitions[1].variableDefinitions =
                  Join([i \in 1..Len(variables) |->
                           <<"$", variables[i].name, ":">> \o T(variables[i])], <<>>)
            /\ \A i \in 1..Len(variables) :
                  /\ Includes(buildQuery(builder[1]),
                              <<"$", variables[i].name, ":">> \o T(variables[i]))
                  /\ doubled(T(variables[i])) => doubled(variables[i].type)
                  /\ ~variables[i].required => T(variables[i]) = variables[i].type

\* C15 witness: a finalized operation whose header is
\* ($id: String!, $id: String!), declared as required String and as
\* required String!.
C15_Witness ==
    /\ built # <<>>
    /\ ~built[1].threw
    /\ Len(builder[1].variables) = 2
    /\ builder[1].variables[1].type = <<"String">>
    /\ builder[1].variables[1].required
    /\ builder[1].variables[2].type = <<"String", "!">>
    /\ builder[1].variables[2].required
    /\ built[1].document.definitions[1].variableDefinitions =
          <<"$", "id", ":", "String", "!", "$", "id", ":", "String", "!">>

C17_UndeclaredNameIgnored ==
    [][\A name \in VariableNames : \A value \in VariableValues :
          (SetVariableValue(name, value) /\ FindVariable(builder[1], name) = 0) =>
             /\ builder' = builder
             /\ buildOperation(builder'[1]) = buildOperation(builder[1])
             /\ built' = built]_vars

\* C17 witness: an operation finalized after a setVariableValue call for a
\* name that is not declared; the operation carries no value for it.
C17_Witness ==
    /\ ignored = <<"input">>
    /\ FindVariable(builder[1], "input") = 0
    /\ Len(builder[1].variables) = 1
    /\ built # <<>>
    /\ ~built[1].threw
    /\ built[1].variables = <<>>

\* C18: the document of a finalized operation holds at most one definition
\* of each fragment name.
C18_FragmentDefinedOnce ==
    (built # <<>> /\ ~built[1].threw) =>
        LET definitions == built[1].document.definitions
        IN  \A i, j \in 2..Len(definitions) :
                definitions[i].name = definitions[j].name => i = j

\* C19: every leaf field passed to a select call is selected by the
\* builder's selection tree (no select call here redefines a leaf of an
\* earlier one to something else).
C19_SelectMerges ==
    builder # <<>> => selected \subseteq LeafPaths(builder[1].selections, <<>>)

\* C20: no operation is finalized with the empty string as operationName.
C20_EmptyNameFails ==
    (built # <<>> /\ ~built[1].threw) => built[1].operationName # ""

(***************************************************************************)
(* Claims about the operation catalog                                      *)
(***************************************************************************)

\* the variables of a returned operation as an object ({} when undefined)
VariablesOf(operation) ==
    IF operation.variables = <<>> THEN EmptyObject ELSE operation.variables[1]

\* C21: for every paginated list factory (getIssues, getTeams, getProjects,
\* getUsers) and every options value, the variables of the operation contain
\* `first` exactly when options.first was provided and `after` exactly when
\* options.after was provided, with the provided values, a provided first = 0
\* and a provided after = "" included.
C21_ProvidedPaginationBound ==
    catalog.factory \in PaginatedFactories =>
        LET options   == catalog.args[1]
            first     == OptionFirst(options)
            after     == OptionAfter(options)
            variables == VariablesOf(catalog.operation)
        IN  /\ ~catalog.operation.threw
            /\ ("first" \in DOMAIN variables) <=> (first # <<>>)
            /\ ("after" \in DOMAIN variables) <=> (after # <<>>)
            /\ first # <<>> => variables["first"] = first[1]
            /\ after # <<>> => variables["after"] = after[1]

\* the names after "..." in a selection set
SpreadsIn(selectionSet) ==
    {selectionSet[i + 1] : i \in {j \in 1..(Len(selectionSet) - 1) : selectionSet[j] = "..."}}

\* the fragment definitions of a document
FragmentDefinitions(document) ==
    SelectSeq(document.definitions, LAMBDA d : d.kind = "FragmentDefinition")

\* C27: every operation a catalog factory returns is fragment-closed: each
\* fragment spread in its selection tree or in the body of an attached
\* fragment names a fragment defined in the same document, and no fragment
\* name is defined twice in the document.
C27_FragmentClosed ==
    catalog # NoFactoryCall =>
        /\ ~catalog.operation.threw
        /\ LET document  == catalog.operation.document
               fragments == FragmentDefinitions(document)
           IN  /\ \A d \in DOMAIN document.definitions :
                     \A spread \in SpreadsIn(document.definitions[d].selectionSet) :
                         \E f \in DOMAIN fragments : fragments[f].name = spread
               /\ \A f, g \in DOMAIN fragments :
                     fragments[f].name = fragments[g].name => f = g

\* an issue operation: its selection spreads IssueFields, whose body spreads
\* TeamFields, and the document defines both
C27_Witness ==
    /\ catalog.factory = "createIssue"
    /\ LET document  == catalog.operation.document
           fragments == FragmentDefinitions(document)
       IN  /\ "IssueFields" \in SpreadsIn(document.definitions[1].selectionSet)
           /\ \E f, g \in DOMAIN fragments :
                 /\ fragments[f].name = "IssueFields"
                 /\ "TeamFields" \in SpreadsIn(fragments[f].selectionSet)
                 /\ fragments[g].name = "TeamFields"

(***************************************************************************)
(* Claims about LinearGraphQLClient                                        *)
(***************************************************************************)

\* parseFloat of the substring of an identifier after its last "-"; NaN
\* when the identifier has no "-"
NumberAfterLastDash(id) ==
    LET pieces == split(id, "-")
    IN  IF Len(pieces) < 2 THEN NaN ELSE parseFloat(<<pieces[Len(pieces)]>>)

\* C22: for every list of identifiers passed to the identifier search, one
\* request is sent whose `numbers` variable has the length and order of the
\* input, its i-th element being the numeric parse of the substring of the
\* i-th identifier after its last "-", NaN for an identifier without "-" or
\* without a number there.
C22_NumbersFollowIdentifiers ==
    (linear.pc # "idle" /\ linear.method = "searchIssues"
        /\ linear.filter.identifierIn # <<>>) =>
        LET ids == linear.filter.identifierIn[1]
        IN  /\ Len(sent) = 1
            /\ sent[1].query = "GET_ISSUES_BY_IDENTIFIER"
            /\ Len(sent[1].variables.numbers) = Len(ids)
            /\ \A i \in 1..Len(ids) :
                  sent[1].variables.numbers[i] = NumberAfterLastDash(ids[i])

\* the issues an issue-creation request carries
IssuesOf(request) ==
    IF request.query = "CREATE_BATCH_ISSUES" THEN request.variables.input.issues
    ELSE <<request.variables.input>>

\* C28: createProjectWithIssues sends issue-creation requests only after
\* the project-creation request was answered with success = true; when that
\* request fails or reports success = false the call rejects and no further
\* request is ever sent; every issue sent carries the id of the project
\* just created; and when an issue-creation request fails the call rejects
\* and nothing but creation requests has been sent (no delete, no rollback).
C28_IssuesFollowProject ==
    linear.pc # "idle" /\ linear.method = "createProjectWithIssues" =>
        /\ sent[1] = ProjectRequest(linear.variant, linear.projectInput)
        /\ Len(sent) > 1 =>
              /\ answered # <<>>
              /\ answered[1].request = 1
              /\ answered[1].response.kind = "ok"
        /\ answered # <<>> /\ answered[1].response.kind # "ok" =>
              Len(sent) = 1 /\ linear.pc = "rejected"
        /\ \A k \in 2..Len(sent) :
              /\ sent[k].query \in {"CREATE_BATCH_ISSUES", "CreateIssue"}
              /\ \A i \in DOMAIN IssuesOf(sent[k]) :
                    /\ "projectId" \in DOMAIN IssuesOf(sent[k])[i]
                    /\ IssuesOf(sent[k])[i].projectId = answered[1].response.id
        /\ (\E a \in DOMAIN answered :
               answered[a].request > 1 /\ answered[a].response.kind = "rejected") =>
              linear.pc = "rejected"

\* the project was created, an issue-creation request failed and the call
\* is rejected
C28_Witness ==
    /\ linear.pc = "rejected"
    /\ linear.method = "createProjectWithIssues"
    /\ Len(sent) > 1
    /\ answered[1].response.kind = "ok"
    /\ \E a \in DOMAIN answered :
          answered[a].request > 1 /\ answered[a].response.kind = "rejected"

(***************************************************************************)
(* Claims about handleCreateProjectWithIssues                              *)
(***************************************************************************)

\* the indexes (from 1) of the issues of an array that have no teamId
IssuesWithoutTeam(issues) ==
    {i \in 1..Len(issues.items) : "teamId" \notin DOMAIN issues.items[i]}

\* project.teamIds is a non-empty array
HasTeamIds(project) ==
    /\ project.teamIds # <<>>
    /\ project.teamIds[1].type = "array"
    /\ project.teamIds[1].items # <<>>

\* C23: handleCreateProjectWithIssues sends no request unless
\* project.teamIds is a non-empty array, issues is an array and every issue
\* has a teamId; when the project and the issues array are in order and an
\* issue lacks teamId, the call fails with the error naming the index of the
\* first such issue, no request having been sent.
C23_ProjectInputCheckedLocally ==
    (call.pc # "idle" /\ call.method = "handleCreateProjectWithIssues") =>
        LET args == call.args
        IN  /\ call.netCalls > 0 =>
                  /\ {"project", "issues"} \subseteq DOMAIN args
                  /\ HasTeamIds(args["project"])
                  /\ args["issues"].type = "array"
                  /\ IssuesWithoutTeam(args["issues"]) = {}
            /\ ( /\ clientAvailable
                 /\ {"project", "issues"} \subseteq DOMAIN args
                 /\ HasTeamIds(args["project"])
                 /\ args["issues"].type = "array"
                 /\ IssuesWithoutTeam(args["issues"]) # {} ) =>
                  /\ call.pc = "settled"
                  /\ call.netCalls = 0
                  /\ Len(call.raised) = 1
                  /\ call.raised[1].message =
                        "Issue at index "
                            \o ToString(Least(IssuesWithoutTeam(args["issues"])) - 1)
                            \o " is missing required teamId."

\* a project with two team IDs whose second issue lacks teamId has failed
\* validation at index 1 without a request
C23_Witness ==
    /\ call.pc = "settled"
    /\ call.method = "handleCreateProjectWithIssues"
    /\ {"project", "issues"} \subseteq DOMAIN call.args
    /\ HasTeamIds(call.args["project"])
    /\ Len(call.args["project"].teamIds[1].items) = 2
    /\ call.args["issues"].type = "array"
    /\ IssuesWithoutTeam(call.args["issues"]) = {2}
    /\ call.netCalls = 0
    /\ Len(call.raised) = 1
    /\ call.raised[1].message = "Issue at index 1 is missing required teamId."

(***************************************************************************)
(* Claims about AuthService                                                *)
(***************************************************************************)

\* AuthService.isAuthenticated() in the current state
IsAuthenticated == AuthService_isAuthenticated(authConfig, patAccessToken, tokenData, now)

\* PAT authentication after an initialize that succeeded with a well-formed
\* token: only such an initialize assigns PATService.accessToken
PatInitialized == Get(authConfig, "type") = <<"pat">> /\ TruthyText(patAccessToken)

\* under initialized PAT authentication isAuthenticated() is true and
\* needsTokenRefresh() is false
PatStaysAuthenticated ==
    PatInitialized =>
        /\ IsAuthenticated
        /\ ~AuthService_needsTokenRefresh(authConfig, tokenData, now)

\* under initialized PAT authentication refreshToken, getAuthorizationUrl
\* and handleCallback fail, send no request and change neither the stored
\* token nor the authenticated state
OAuthOnlyCallsFail ==
    ( /\ PatInitialized
      /\ \/ AuthRefreshToken
         \/ \E state \in {<<>>, <<"state-1">>} : AuthGetAuthorizationUrl(state)
         \/ \E code \in {"test-code"} : AuthHandleCallback(code) ) =>
        /\ authCall'.pc = "ended"
        /\ authCall'.outcome \in {"rejected", "threw"}
        /\ posts' = posts
        /\ patAccessToken' = patAccessToken
        /\ tokenData' = tokenData
        /\ AuthService_isAuthenticated(authConfig', patAccessToken', tokenData', now')

\* initialize with a PAT configuration without token rejects with
\* 'Personal access token is required' and the service is unauthenticated
TokenlessInitializeRejects ==
    \A config \in TokenlessPatConfigs :
        AuthInitialize(<<config>>) =>
            /\ authCall'.outcome = "rejected"
            /\ authCall'.message = "Personal access token is required"
            /\ ~AuthService_isAuthenticated(authConfig', patAccessToken', tokenData', now')

\* C24: under PAT authentication, in every state after a successful
\* initialize with a well-formed token, isAuthenticated() is true and
\* needsTokenRefresh() is false; refreshToken, getAuthorizationUrl and
\* handleCallback each fail, issue no HTTP request and leave the stored
\* token and the authenticated state unchanged; and initialize with a PAT
\* configuration that has no token rejects with 'Personal access token is
\* required' and leaves the service unauthenticated.
C24_PatNeedsNoOAuth ==
    /\ []PatStaysAuthenticated
    /\ [][OAuthOnlyCallsFail /\ TokenlessInitializeRejects]_vars

\* the first two parts of C24 alone
PatIsStable == []PatStaysAuthenticated /\ [][OAuthOnlyCallsFail]_vars

(***************************************************************************)
(* Claims about IssueService bulk operations                               *)
(***************************************************************************)

\* what item i of the bulk call asks for is what issue has
AnswersItem(method, item, issue) ==
    IF method = "bulkCreateIssues" THEN issue.title = item.title
    ELSE issue.id = item.id /\ issue.title = item.input.title

\* C25: a bulk operation starts one per-item call for every input item
\* before awaiting any of them; it resolves with one result per input in
\* input order only if every per-item call succeeded, is rejected as a
\* whole as soon as one per-item call rejects, and then the items whose
\* calls succeeded remain created or updated: no other operation than the
\* per-item ones is ever executed.
C25_BulkAllOrNothing ==
    bulk.pc # "idle" =>
        /\ DOMAIN bulk.calls = DOMAIN bulk.items
        /\ \A i \in DOMAIN bulk.calls : bulk.calls[i].pc \in {"pending", "fulfilled", "rejected"}
        /\ executed = [i \in DOMAIN bulk.items |-> ItemOperation(bulk.method, bulk.items[i])]
        /\ bulk.pc = "resolved" =>
              /\ \A i \in DOMAIN bulk.calls : bulk.calls[i].pc = "fulfilled"
              /\ DOMAIN bulk.result = DOMAIN bulk.items
              /\ \A i \in DOMAIN bulk.items :
                    /\ bulk.result[i] = bulk.calls[i].value
                    /\ AnswersItem(bulk.method, bulk.items[i], bulk.result[i])
        /\ bulk.pc = "rejected" <=> \E i \in DOMAIN bulk.calls : bulk.calls[i].pc = "rejected"
        /\ \A i \in DOMAIN bulk.calls :
              bulk.calls[i].pc = "fulfilled" => bulk.calls[i].value \in store

\* a bulk call of two items is rejected while the other item's call has
\* succeeded and its issue is in the workspace
C25_Witness ==
    /\ bulk.pc = "rejected"
    /\ Len(bulk.items) = 2
    /\ \E i, j \in DOMAIN bulk.calls :
          /\ bulk.calls[i].pc = "rejected"
          /\ bulk.calls[j].pc = "fulfilled"
          /\ bulk.calls[j].value \in store

(***************************************************************************)
(* Claims about ConfigService                                              *)
(***************************************************************************)

\* a is a number and a >= b
AtLeast(a, b) == "value" \in DOMAIN a /\ a.value >= b

\* one of the cases in which validation is to throw, with the comparisons
\* as JavaScript evaluates them
RejectedCase(config) ==
    \/ /\ ~TruthyText(config.auth.accessToken)
       /\ ~(TruthyText(config.auth.clientId) /\ TruthyText(config.auth.clientSecret))
    \/ /\ TruthyText(config.auth.clientId) /\ TruthyText(config.auth.clientSecret)
       /\ ~TruthyText(config.auth.redirectUri)
    \/ LessThan(config.http.timeout, 1000)
    \/ LessThan(config.http.maxRetries, 0)
    \/ /\ config.http.rateLimit # <<>>
       /\ \/ LessThan(config.http.rateLimit[1].maxRequests, 1)
          \/ LessThan(config.http.rateLimit[1].windowMs, 1000)

\* credentials are present, and the numbers are within their bounds
WithinBounds(config) ==
    /\ \/ TruthyText(config.auth.accessToken)
       \/ TruthyText(config.auth.clientId) /\ TruthyText(config.auth.clientSecret)
    /\ TruthyText(config.auth.clientId) /\ TruthyText(config.auth.clientSecret) =>
           TruthyText(config.auth.redirectUri)
    /\ AtLeast(config.http.timeout, 1000)
    /\ AtLeast(config.http.maxRetries, 0)
    /\ config.http.rateLimit # <<>> =>
           /\ AtLeast(config.http.rateLimit[1].maxRequests, 1)
           /\ AtLeast(config.http.rateLimit[1].windowMs, 1000)

\* no instance exists whose configuration is one of the rejected cases
ConfigRejectsListedCases == service # <<>> => ~RejectedCase(service[1])

\* C26: a ConfigService instance exists only if its configuration passed
\* validation: the constructor and fromConfig throw when credentials are
\* missing, when OAuth credentials lack a redirect URI, when timeout < 1000,
\* maxRetries < 0, or a rate limit has maxRequests < 1 or windowMs < 1000;
\* so getConfig() of every instance has credentials, timeout >= 1000,
\* maxRetries >= 0 and, for a rate limit, maxRequests >= 1 and
\* windowMs >= 1000.
C26_InstancesWithinBounds ==
    service # <<>> => ~RejectedCase(service[1]) /\ WithinBounds(service[1])

(***************************************************************************)
(* Claims about concurrent OAuthService.getAccessToken calls               *)
(***************************************************************************)

\* the calls whose token-refresh request is in flight
RefreshesInFlight == {c \in OAuthCallIds : oauthCalls[c].pc = "waiting"}

\* a call that sends a refresh request sends the stored refresh token, which
\* has not been exchanged before
SendsCurrentRefreshToken ==
    \A c \in OAuthCallIds :
        oauthCalls[c].pc = "idle" /\ oauthCalls'[c].pc = "waiting" =>
            /\ <<oauthCalls'[c].post.refresh_token>> = TokenManager_getRefreshToken(oauthTokenData)
            /\ oauthCalls'[c].post.refresh_token \notin exchanged

\* a call that returns returns the stored access token, which is not expired
ReturnsStoredToken ==
    \A c \in OAuthCallIds :
        oauthCalls[c].pc # "ended" /\ oauthCalls'[c].pc = "ended" =>
            \/ oauthCalls'[c].outcome = "rejected"
            \/ /\ oauthCalls'[c].outcome = "resolved"
               /\ oauthCalls'[c].value = TokenManager_getAccessToken(oauthTokenData', now')
               /\ hasValidToken(oauthTokenData', now')

\* C29: for every interleaving of pending getAccessToken calls made while
\* the stored access token is expired and a refresh token is present, at
\* most one token-refresh request is in flight at a time, every refresh
\* request is sent with the refresh token current when it is sent and no
\* request in flight carries a refresh token another call has exchanged,
\* and a call that ends returns the stored, non-expired access token or
\* rejects.
C29_SingleRefreshInFlight ==
    /\ [](Cardinality(RefreshesInFlight) <= 1)
    /\ [](\A c \in RefreshesInFlight : oauthCalls[c].post.refresh_token \notin exchanged)
    /\ [][SendsCurrentRefreshToken /\ ReturnsStoredToken]_vars

\* what holds of the calls one by one
EachCallAlone == [][SendsCurrentRefreshToken /\ ReturnsStoredToken]_vars

(***************************************************************************)
(* Claims about TokenManager                                               *)
(***************************************************************************)

\* token data is stored and now < expiresAt - 5 minutes
StoredAndFresh == tokenData # <<>> /\ now < tokenData[1].expiresAt - BufferTimeMs

\* the state properties of C30, a token being a string that is not empty
TokenAnswersAgree ==
    /\ TruthyText(TokenManager_getAccessToken(tokenData, now)) <=> hasValidToken(tokenData, now)
    /\ hasValidToken(tokenData, now) <=> StoredAndFresh
    /\ needsRefresh(tokenData, now) <=>
           /\ TruthyText(TokenManager_getRefreshToken(tokenData))
           /\ ~StoredAndFresh

\* after clearTokens() getAccessToken() and getRefreshToken() return undefined
ClearedMeansUndefined ==
    ClearTokens =>
        /\ TokenManager_getAccessToken(tokenData', now') = <<>>
        /\ TokenManager_getRefreshToken(tokenData') = <<>>

\* setTokenData without expiresAt stores an expiry one hour after the call
DefaultExpiryIsOneHour ==
    \A data \in TokenDatas :
        SetTokenData(data) /\ data.expiresAt = <<>> =>
            tokenData'[1].expiresAt = now + 60 * 60 * 1000

\* C30: in every state of TokenManager reachable by setTokenData,
\* clearTokens and the passage of time, getAccessToken() returns a token
\* iff hasValidToken(), which holds iff token data is stored and
\* now < expiresAt - 5 minutes; needsRefresh() holds iff a refresh token is
\* stored and the access token is expired by that rule; after clearTokens()
\* getAccessToken() and getRefreshToken() return undefined; and setTokenData
\* without expiresAt stores an expiry one hour after the call.
C30_TokenManagerConsistent ==
    /\ []TokenAnswersAgree
    /\ [][ClearedMeansUndefined /\ DefaultExpiryIsOneHour]_vars

\* the same with the states left out in which the stored access token is
\* the empty string
NonEmptyTokensConsistent ==
    /\ []((tokenData # <<>> /\ tokenData[1].accessToken = <<>>) \/ TokenAnswersAgree)
    /\ [][ClearedMeansUndefined /\ DefaultExpiryIsOneHour]_vars

====
